---- MODULE Spec2Model ----
(***************************************************************************)
(* A model of nvidia-installer's install-from-cwd.c: the orchestration of  *)
(* install_from_cwd() and add_this_kernel(), the kernel module acquisition *)
(* install_kernel_module(), and the life time of the Package they share.   *)
(*                                                                         *)
(* One action stands for one statement (one collaborator call and the      *)
(* branch taken on its result) of the C code; pc is the position of the    *)
(* single thread of control.  Every collaborator is external: its result   *)
(* is a nondeterministic input.  calls is the history of the collaborator  *)
(* calls made so far, in order, each with the value it returned.           *)
(***************************************************************************)
EXTENDS Integers, Sequences, FiniteSets

VARIABLES
    pc,                   \* position of control (a statement or a label)
    entry,                \* the function that was called: install_from_cwd or add_this_kernel
    op,                   \* Options *op, the fields install-from-cwd.c reads or writes
    op0,                  \* the value of *op when the function was called
    NV_X86_64,            \* whether the build defines NV_X86_64
    p,                    \* the local Package *p of the running function
    ran_pre_install_hook, \* local of install_from_cwd
    calls,                \* history: the collaborator calls made, with their results
    pkg_allocs,           \* number of Package blocks obtained from nvalloc
    pkg_frees,            \* number of times a Package block was handed to nvfree
    outcome,              \* the terminal state the run has entered, if any
    ret,                  \* what the function returned
    \* ---- one call of parse_manifest(), followed by add_package_entry() calls
    manifest,             \* the .manifest file: its logical lines, in order
    cwd_files,            \* the file names that exist in the working directory
    pm_pc,                \* position of control inside parse_manifest()
    pkg,                  \* *p, the Package under construction
    line,                 \* local: the number of the manifest line being read
    ptr,                  \* local: where the next get_next_line() starts (a line index)
    fd,                   \* local: the descriptor open() returned, or -1
    mapped,               \* local: manifest != MAP_FAILED
    sys,                  \* history: how often open, close, mmap, munmap succeeded
    pm_frees,             \* history: number of free_package(p) calls made on the Package
    pm_errors,            \* history: the ui_error() messages of parse_manifest()
    pm_ret,               \* what parse_manifest() returned: "none" yet, "NULL" or "p"
    adds                  \* number of add_package_entry() calls made

\* The state of the parse_manifest() / add_package_entry() part.
pvars == << manifest, cwd_files, pm_pc, pkg, line, ptr, fd, mapped, sys,
            pm_frees, pm_errors, pm_ret, adds >>

\* The state of the install_from_cwd() / add_this_kernel() part.
ivars == << pc, entry, op, op0, NV_X86_64, p, ran_pre_install_hook, calls,
            pkg_allocs, pkg_frees, outcome, ret >>

vars == << ivars, pvars >>

\* One entry of the history: collaborator fn returned r (TRUE for a void call).
Ev(fn, r) == [fn |-> fn, ret |-> r]

Log(fn, r) == Append(calls, Ev(fn, r))

\* The fields of Options that install_from_cwd() consults.
Options ==
    [ no_kernel_module           : BOOLEAN,
      no_kernel_module_source    : BOOLEAN,
      dkms                       : BOOLEAN,
      kernel_module_only         : BOOLEAN,
      no_opengl_files            : BOOLEAN,
      no_nvidia_xconfig_question : BOOLEAN,
      logging                    : BOOLEAN ]

Entries == {"install_from_cwd", "add_this_kernel"}

\* The null pointer, where a string (a sequence of characters) may stand.
NULL == << "(null)" >>

\* parse_manifest() has not been entered: its locals hold nothing.
ParserIdle ==
    /\ manifest = << >>
    /\ cwd_files = {}
    /\ pm_pc = "idle"
    /\ pkg = NULL
    /\ line = 0
    /\ ptr = 0
    /\ fd = -1
    /\ mapped = FALSE
    /\ sys = [open |-> 0, close |-> 0, mmap |-> 0, munmap |-> 0]
    /\ pm_frees = 0
    /\ pm_errors = << >>
    /\ pm_ret = "none"
    /\ adds = 0

Init ==
    /\ ParserIdle
    /\ entry \in Entries
    /\ pc = IF entry = "install_from_cwd" THEN "parse_manifest" ELSE "atk_parse_manifest"
    /\ op \in Options
    /\ op0 = op
    /\ NV_X86_64 \in BOOLEAN
    /\ p = "NULL"
    /\ ran_pre_install_hook = FALSE
    /\ calls = << >>
    /\ pkg_allocs = 0
    /\ pkg_frees = 0
    /\ outcome = "Running"
    /\ ret = "none"

----------------------------------------------------------------------------
(* free_package(): a NULL pointer is ignored, anything else is freed.      *)

free_package(pp) == IF pp = "NULL" THEN pkg_frees ELSE pkg_frees + 1

----------------------------------------------------------------------------
(* Shapes shared by the statements of the pipeline.                        *)

\* if (!fn(...)) goto onfail;   otherwise control falls to next
Gate(fn, next, onfail) ==
    /\ \E r \in BOOLEAN :
          /\ calls' = Log(fn, r)
          /\ pc' = IF r THEN next ELSE onfail
    /\ UNCHANGED << pvars, entry, op, op0, NV_X86_64, p, ran_pre_install_hook,
                    pkg_allocs, pkg_frees, outcome, ret >>

\* fn(...);   the result, if any, is not looked at
Advisory(fn, next) ==
    /\ \E r \in BOOLEAN : calls' = Log(fn, r)
    /\ pc' = next
    /\ UNCHANGED << pvars, entry, op, op0, NV_X86_64, p, ran_pre_install_hook,
                    pkg_allocs, pkg_frees, outcome, ret >>

\* fn(...);   a void collaborator
Step(fn, next) ==
    /\ calls' = Log(fn, TRUE)
    /\ pc' = next
    /\ UNCHANGED << pvars, entry, op, op0, NV_X86_64, p, ran_pre_install_hook,
                    pkg_allocs, pkg_frees, outcome, ret >>

\* control passes a statement whose condition is false
Skip(next) ==
    /\ pc' = next
    /\ UNCHANGED << pvars, entry, op, op0, NV_X86_64, p, ran_pre_install_hook, calls,
                    pkg_allocs, pkg_frees, outcome, ret >>

\* ParseManifest whose failure path forgets to release the Package.
ParseManifest_leak(next, onfail) ==
    /\ \E r \in BOOLEAN :
          /\ calls' = Log("parse_manifest", r)
          /\ pkg_allocs' = pkg_allocs + 1
          /\ pkg_frees' = pkg_frees
          /\ IF r
                THEN /\ p' = "pkg"
                     /\ pc' = next
                ELSE /\ p' = "NULL"
                     /\ pc' = onfail
    /\ UNCHANGED << pvars, entry, op, op0, NV_X86_64, ran_pre_install_hook, outcome, ret >>

\* if ((p = parse_manifest(op)) == NULL) goto onfail;
\* parse_manifest() allocates the Package; on each of its failures it
\* releases the Package itself and returns NULL.
ParseManifest(next, onfail) ==
    /\ \E r \in BOOLEAN :
          /\ calls' = Log("parse_manifest", r)
          /\ pkg_allocs' = pkg_allocs + 1
          /\ IF r
                THEN /\ p' = "pkg"
                     /\ pkg_frees' = pkg_frees
                     /\ pc' = next
                ELSE /\ p' = "NULL"
                     /\ pkg_frees' = free_package("pkg")
                     /\ pc' = onfail
    /\ UNCHANGED << pvars, entry, op, op0, NV_X86_64, ran_pre_install_hook, outcome, ret >>

----------------------------------------------------------------------------
(* install_from_cwd()                                                      *)

\* if ((p = parse_manifest(op)) == NULL) goto failed;
parse_manifest ==
    /\ pc = "parse_manifest"
    /\ ParseManifest("check_for_nvidia_graphics_devices", "failed")

\* check_for_nvidia_graphics_devices whose failure ends the run.
check_for_nvidia_graphics_devices_gated ==
    /\ pc = "check_for_nvidia_graphics_devices"
    /\ Gate("check_for_nvidia_graphics_devices", "check_for_running_x", "failed")

\* check_for_nvidia_graphics_devices(op, p);
check_for_nvidia_graphics_devices ==
    /\ pc = "check_for_nvidia_graphics_devices"
    /\ Advisory("check_for_nvidia_graphics_devices", "check_for_running_x")

\* if (!check_for_running_x(op)) goto failed;
check_for_running_x ==
    /\ pc = "check_for_running_x"
    /\ Gate("check_for_running_x",
         "check_for_unloaded_kernel_module", "failed")

\* A variant of the kernel-module stage that turns the kernel module off in the
\* options whether or not DKMS was chosen.
kernel_module_always_disabled ==
    /\ pc = "kernel_module"
    /\ IF ~op.no_kernel_module
          THEN \E found \in BOOLEAN, answer \in BOOLEAN :
                  LET offered == found /\ ~op.no_kernel_module_source
                      probed  == Log("find_system_util:dkms", found)
                      asked   == IF offered
                                    THEN Append(probed, Ev("ui_yes_no:dkms", answer))
                                    ELSE probed
                      dkms    == IF offered THEN answer ELSE op.dkms
                  IN  IF dkms
                         THEN /\ op' = [op EXCEPT !.dkms = dkms, !.no_kernel_module = TRUE]
                              /\ calls' = asked
                              /\ pc' = "prune"
                         ELSE /\ op' = [op EXCEPT !.dkms = dkms, !.no_kernel_module = TRUE]
                              /\ calls' = Append(asked, Ev("install_kernel_module", TRUE))
                              /\ pc' = "determine_kernel_module_installation_path"
          ELSE /\ calls' = IF op.dkms
                              THEN Append(Log("ui_warn:no-kernel-module", TRUE),
                                          Ev("ui_warn:dkms-ignored", TRUE))
                              ELSE Log("ui_warn:no-kernel-module", TRUE)
               /\ op' = [op EXCEPT !.dkms = FALSE]
               /\ pc' = "prune"
    /\ UNCHANGED << pvars, entry, op0, NV_X86_64, p, ran_pre_install_hook, pkg_allocs,
                    pkg_frees, outcome, ret >>

\* if (!check_for_unloaded_kernel_module(op, p)) goto failed;
check_for_unloaded_kernel_module ==
    /\ pc = "check_for_unloaded_kernel_module"
    /\ Gate("check_for_unloaded_kernel_module",
         "get_license_acceptance", "failed")

\* get_license_acceptance whose decline jumps to the failure handler.
get_license_acceptance_failed ==
    /\ pc = "get_license_acceptance"
    /\ Gate("get_license_acceptance", "check_for_existing_driver", "failed")

\* if (!get_license_acceptance(op)) goto exit_install;
get_license_acceptance ==
    /\ pc = "get_license_acceptance"
    /\ Gate("get_license_acceptance",
         "check_for_existing_driver", "exit_install")

\* if (!check_for_existing_driver(op, p)) goto exit_install;
check_for_existing_driver ==
    /\ pc = "check_for_existing_driver"
    /\ Gate("check_for_existing_driver",
         "run_distro_hook_pre_install", "exit_install")

\* run_distro_hook_pre_install that marks the hook as run before asking
\* whether to continue.
run_distro_hook_pre_install_marked_early ==
    /\ pc = "run_distro_hook_pre_install"
    /\ \E hook \in BOOLEAN, answer \in BOOLEAN :
          LET ran == Log("run_distro_hook:pre-install", hook)
          IN  IF hook
                 THEN /\ calls' = ran
                      /\ pc' = "check_for_nouveau"
                 ELSE /\ calls' = Append(ran, Ev("ui_yes_no:continue", answer))
                      /\ pc' = IF answer THEN "check_for_nouveau" ELSE "failed"
    /\ ran_pre_install_hook' = TRUE
    /\ UNCHANGED << pvars, entry, op, op0, NV_X86_64, p, pkg_allocs, pkg_frees,
                    outcome, ret >>

\* if (!run_distro_hook(op, "pre-install")) {
\*     if (!ui_yes_no(op, TRUE, "... Continue installation anyway?")) goto failed;
\* }
\* ran_pre_install_hook = TRUE;
run_distro_hook_pre_install ==
    /\ pc = "run_distro_hook_pre_install"
    /\ \E hook \in BOOLEAN, answer \in BOOLEAN :
          LET ran == Log("run_distro_hook:pre-install", hook)
          IN  IF hook
                 THEN /\ calls' = ran
                      /\ ran_pre_install_hook' = TRUE
                      /\ pc' = "check_for_nouveau"
                 ELSE /\ calls' = Append(ran, Ev("ui_yes_no:continue", answer))
                      /\ IF answer
                            THEN /\ ran_pre_install_hook' = TRUE
                                 /\ pc' = "check_for_nouveau"
                            ELSE /\ ran_pre_install_hook' = ran_pre_install_hook
                                 /\ pc' = "failed"
    /\ UNCHANGED << pvars, entry, op, op0, NV_X86_64, p, pkg_allocs, pkg_frees,
                    outcome, ret >>

\* if (!check_for_nouveau(op)) goto failed;
check_for_nouveau ==
    /\ pc = "check_for_nouveau"
    /\ Gate("check_for_nouveau", "kernel_module", "failed")

\* kernel_module that offers DKMS when either condition holds (|| for &&).
kernel_module_offer_either ==
    /\ pc = "kernel_module"
    /\ IF ~op.no_kernel_module
          THEN \E found \in BOOLEAN, answer \in BOOLEAN :
                  LET offered == found \/ ~op.no_kernel_module_source
                      probed  == Log("find_system_util:dkms", found)
                      asked   == IF offered
                                    THEN Append(probed, Ev("ui_yes_no:dkms", answer))
                                    ELSE probed
                      dkms    == IF offered THEN answer ELSE op.dkms
                  IN  IF dkms
                         THEN /\ op' = [op EXCEPT !.dkms = dkms, !.no_kernel_module = TRUE]
                              /\ calls' = asked
                              /\ pc' = "prune"
                         ELSE /\ op' = [op EXCEPT !.dkms = dkms]
                              /\ calls' = Append(asked, Ev("install_kernel_module", TRUE))
                              /\ pc' = "determine_kernel_module_installation_path"
          ELSE /\ calls' = IF op.dkms
                              THEN Append(Log("ui_warn:no-kernel-module", TRUE),
                                          Ev("ui_warn:dkms-ignored", TRUE))
                              ELSE Log("ui_warn:no-kernel-module", TRUE)
               /\ op' = [op EXCEPT !.dkms = FALSE]
               /\ pc' = "prune"
    /\ UNCHANGED << pvars, entry, op0, NV_X86_64, p, ran_pre_install_hook, pkg_allocs,
                    pkg_frees, outcome, ret >>

\* if (!op->no_kernel_module) {
\*     if (find_system_util("dkms") && !op->no_kernel_module_source)
\*         op->dkms = ui_yes_no(op, op->dkms, "... register ... with DKMS? ...");
\*     if (op->dkms) op->no_kernel_module = TRUE;
\*     else if (!install_kernel_module(op, p)) goto failed;     (the call is entered here)
\* } else {
\*     ui_warn(...);
\*     if (op->dkms) { ui_warn(...); op->dkms = FALSE; }
\* }
kernel_module ==
    /\ pc = "kernel_module"
    /\ IF ~op.no_kernel_module
          THEN \E found \in BOOLEAN, answer \in BOOLEAN :
                  LET offered == found /\ ~op.no_kernel_module_source
                      probed  == Log("find_system_util:dkms", found)
                      asked   == IF offered
                                    THEN Append(probed, Ev("ui_yes_no:dkms", answer))
                                    ELSE probed
                      dkms    == IF offered THEN answer ELSE op.dkms
                  IN  IF dkms
                         THEN /\ op' = [op EXCEPT !.dkms = dkms, !.no_kernel_module = TRUE]
                              /\ calls' = asked
                              /\ pc' = "prune"
                         ELSE /\ op' = [op EXCEPT !.dkms = dkms]
                              /\ calls' = Append(asked, Ev("install_kernel_module", TRUE))
                              /\ pc' = "determine_kernel_module_installation_path"
          ELSE /\ calls' = IF op.dkms
                              THEN Append(Log("ui_warn:no-kernel-module", TRUE),
                                          Ev("ui_warn:dkms-ignored", TRUE))
                              ELSE Log("ui_warn:no-kernel-module", TRUE)
               /\ op' = [op EXCEPT !.dkms = FALSE]
               /\ pc' = "prune"
    /\ UNCHANGED << pvars, entry, op0, NV_X86_64, p, ran_pre_install_hook, pkg_allocs,
                    pkg_frees, outcome, ret >>

\* ... else if (!install_kernel_module(op, p)) goto failed;     (the call returns here)
install_kernel_module_return ==
    \/ /\ pc = "install_kernel_module:TRUE"
       /\ calls' = Log("install_kernel_module:return", TRUE)
       /\ pc' = "prune"
       /\ UNCHANGED << pvars, entry, op, op0, NV_X86_64, p, ran_pre_install_hook,
                       pkg_allocs, pkg_frees, outcome, ret >>
    \/ /\ pc = "install_kernel_module:FALSE"
       /\ calls' = Log("install_kernel_module:return", FALSE)
       /\ pc' = "failed"
       /\ UNCHANGED << pvars, entry, op, op0, NV_X86_64, p, ran_pre_install_hook,
                       pkg_allocs, pkg_frees, outcome, ret >>

\* if (op->kernel_module_only) remove_non_kernel_module_files_from_package(op, p);
\* else { if (!get_prefixes(op)) goto failed; ...
remove_non_kernel_module_files_from_package ==
    /\ pc = "prune"
    /\ op.kernel_module_only
    /\ Step("remove_non_kernel_module_files_from_package",
            "remove_opengl_files_from_package")

\* get_prefixes asked also when only the kernel module is installed.
get_prefixes_unguarded ==
    /\ pc = "prune"
    /\ Gate("get_prefixes", "should_install_opengl_headers", "failed")

get_prefixes ==
    /\ pc = "prune"
    /\ ~op.kernel_module_only
    /\ Gate("get_prefixes", "should_install_opengl_headers", "failed")

\* should_install_opengl_headers(op, p);
should_install_opengl_headers ==
    /\ pc = "should_install_opengl_headers"
    /\ Step("should_install_opengl_headers",
         "select_tls_class")

\* select_tls_class(op, p);
select_tls_class ==
    /\ pc = "select_tls_class"
    /\ Step("select_tls_class", "process_libGL_la_files")

\* process_libGL_la_files(op, p);
process_libGL_la_files ==
    /\ pc = "process_libGL_la_files"
    /\ Step("process_libGL_la_files",
         "process_dot_desktop_files")

\* process_dot_desktop_files(op, p);
process_dot_desktop_files ==
    /\ pc = "process_dot_desktop_files"
    /\ Step("process_dot_desktop_files",
         "should_install_compat32_files")

\* #if defined(NV_X86_64)   should_install_compat32_files(op, p);   #endif
should_install_compat32_files ==
    /\ pc = "should_install_compat32_files"
    /\ IF NV_X86_64
       THEN Step("should_install_compat32_files",
                 "remove_opengl_files_from_package")
       ELSE Skip("remove_opengl_files_from_package")

\* remove_opengl_files_from_package placed after set_destinations.
remove_opengl_files_after_set_destinations ==
    /\ pc = "remove_opengl_files_from_package"
    /\ \E r \in BOOLEAN :
          /\ calls' = IF r /\ op.no_opengl_files
                         THEN Append(Log("set_destinations", r),
                                     Ev("remove_opengl_files_from_package", TRUE))
                         ELSE Log("set_destinations", r)
          /\ pc' = IF r THEN "uninstall_existing_driver" ELSE "failed"
    /\ UNCHANGED << pvars, entry, op, op0, NV_X86_64, p, ran_pre_install_hook,
                    pkg_allocs, pkg_frees, outcome, ret >>

\* if (op->no_opengl_files) remove_opengl_files_from_package(op, p);
remove_opengl_files_from_package ==
    /\ pc = "remove_opengl_files_from_package"
    /\ IF op.no_opengl_files
       THEN Step("remove_opengl_files_from_package", "set_destinations")
       ELSE Skip("set_destinations")

\* if (!set_destinations(op, p)) goto failed;
set_destinations ==
    /\ pc = "set_destinations"
    /\ Gate("set_destinations", "uninstall_existing_driver", "failed")

\* uninstall_existing_driver whose result is not looked at.
uninstall_existing_driver_unchecked ==
    /\ pc = "uninstall_existing_driver"
    /\ IF ~op.kernel_module_only
       THEN Advisory("uninstall_existing_driver", "build_command_list")
       ELSE Skip("build_command_list")

\* if (!op->kernel_module_only) {
\*     if (!uninstall_existing_driver(op, FALSE)) goto failed;
\* }
uninstall_existing_driver ==
    /\ pc = "uninstall_existing_driver"
    /\ IF ~op.kernel_module_only
       THEN Gate("uninstall_existing_driver",
                 "build_command_list", "failed")
       ELSE Skip("build_command_list")

\* if ((c = build_command_list(op, p)) == NULL) goto failed;
build_command_list ==
    /\ pc = "build_command_list"
    /\ Gate("build_command_list", "ui_approve_command_list", "failed")

\* ui_approve_command_list whose decline jumps to the failure handler.
ui_approve_command_list_failed ==
    /\ pc = "ui_approve_command_list"
    /\ Gate("ui_approve_command_list", "init_backup", "failed")

\* if (!ui_approve_command_list(op, c, "%s", p->description)) goto exit_install;
ui_approve_command_list ==
    /\ pc = "ui_approve_command_list"
    /\ Gate("ui_approve_command_list", "init_backup",
         "exit_install")

\* init_backup whose result is not looked at.
init_backup_unchecked ==
    /\ pc = "init_backup"
    /\ IF ~op.kernel_module_only
       THEN Advisory("init_backup", "do_install")
       ELSE Skip("do_install")

\* if (!op->kernel_module_only) {
\*     if (!init_backup(op, p)) goto failed;
\* }
init_backup ==
    /\ pc = "init_backup"
    /\ IF ~op.kernel_module_only
       THEN Gate("init_backup", "do_install", "failed")
       ELSE Skip("do_install")

\* do_install that runs the command list a second time after it succeeded.
do_install_twice ==
    /\ pc = "do_install"
    /\ Gate("do_install",
            IF \E i \in DOMAIN calls : calls[i].fn = "do_install"
               THEN "dkms_install_module"
               ELSE "do_install",
            "failed")

\* if (!do_install(op, p, c)) goto failed;
do_install ==
    /\ pc = "do_install"
    /\ Gate("do_install", "dkms_install_module", "failed")

\* dkms_install_module that does not test op->dkms.
dkms_install_module_always ==
    /\ pc = "dkms_install_module"
    /\ Gate("dkms_install_module", "run_distro_hook_post_install", "failed")

\* if (op->dkms && !dkms_install_module(op, p->version, get_kernel_name(op)))
\*     goto failed;
dkms_install_module ==
    /\ pc = "dkms_install_module"
    /\ IF op.dkms
       THEN Gate("dkms_install_module",
                 "run_distro_hook_post_install", "failed")
       ELSE Skip("run_distro_hook_post_install")

\* run_distro_hook(op, "post-install");
run_distro_hook_post_install ==
    /\ pc = "run_distro_hook_post_install"
    /\ Advisory("run_distro_hook:post-install",
             "check_installed_files_from_package")

\* check_installed_files_from_package(op, p);
check_installed_files_from_package ==
    /\ pc = "check_installed_files_from_package"
    /\ Advisory("check_installed_files_from_package", "check_sysvipc")

\* if (!check_sysvipc(op)) goto failed;
check_sysvipc ==
    /\ pc = "check_sysvipc"
    /\ Gate("check_sysvipc", "check_runtime_configuration", "failed")

\* if (!check_runtime_configuration(op, p)) goto failed;
check_runtime_configuration ==
    /\ pc = "check_runtime_configuration"
    /\ Gate("check_runtime_configuration",
         "installation_complete", "failed")

\* if (op->kernel_module_only || op->no_nvidia_xconfig_question) ui_message(...);
\* else {
\*     ret = ui_yes_no(op, op->run_nvidia_xconfig, "... run the nvidia-xconfig utility ...");
\*     if (ret) ret = run_nvidia_xconfig(op, FALSE);
\*     if (ret) ui_message(...) else ui_message(...);
\* }
installation_complete ==
    /\ pc = "installation_complete"
    /\ IF op.kernel_module_only \/ op.no_nvidia_xconfig_question
          THEN calls' = Log("ui_message:complete", TRUE)
          ELSE \E answer \in BOOLEAN, tool \in BOOLEAN :
                  LET asked == Log("ui_yes_no:nvidia-xconfig", answer)
                      ran   == IF answer
                                  THEN Append(asked, Ev("run_nvidia_xconfig", tool))
                                  ELSE asked
                  IN  calls' = Append(ran, Ev("ui_message:complete", TRUE))
    /\ pc' = "free_package"
    /\ UNCHANGED << pvars, entry, op, op0, NV_X86_64, p, ran_pre_install_hook,
                    pkg_allocs, pkg_frees, outcome, ret >>

\* free_package(p);
\* return TRUE;
return_TRUE ==
    /\ pc = "free_package"
    /\ pkg_frees' = free_package(p)
    /\ ret' = "TRUE"
    /\ outcome' = "Success"
    /\ pc' = "returned"
    /\ UNCHANGED << pvars, entry, op, op0, NV_X86_64, p, ran_pre_install_hook, calls,
                    pkg_allocs >>

\* failed:
\*     if (op->logging) ui_error(op, "Installation has failed.  Please see the file ...");
\*     else             ui_error(op, "Installation has failed.  ...");
\*     if (ran_pre_install_hook) run_distro_hook(op, "failed-install");
failed ==
    /\ pc = "failed"
    /\ \E hook \in BOOLEAN :
          LET told == Log("ui_error:Installation has failed", TRUE)
          IN  calls' = IF ran_pre_install_hook
                          THEN Append(told, Ev("run_distro_hook:failed-install", hook))
                          ELSE told
    /\ outcome' = "Failed"
    /\ pc' = "exit_install"
    /\ UNCHANGED << pvars, entry, op, op0, NV_X86_64, p, ran_pre_install_hook,
                    pkg_allocs, pkg_frees, ret >>

\* exit_install:
\*     free_package(p);
\*     return FALSE;
exit_install ==
    /\ pc = "exit_install"
    /\ pkg_frees' = free_package(p)
    /\ ret' = "FALSE"
    /\ outcome' = IF outcome = "Failed" THEN "Failed" ELSE "Declined"
    /\ pc' = "returned"
    /\ UNCHANGED << pvars, entry, op, op0, NV_X86_64, p, ran_pre_install_hook, calls,
                    pkg_allocs >>

----------------------------------------------------------------------------
(* install_kernel_module(): "return FALSE" is the position                 *)
(* install_kernel_module:FALSE, "return TRUE" is install_kernel_module:TRUE *)

\* if (!determine_kernel_module_installation_path(op)) return FALSE;
determine_kernel_module_installation_path ==
    /\ pc = "determine_kernel_module_installation_path"
    /\ Gate("determine_kernel_module_installation_path",
         "check_proc_modprobe_path", "install_kernel_module:FALSE")

\* if (!check_proc_modprobe_path(op)) return FALSE;
check_proc_modprobe_path ==
    /\ pc = "check_proc_modprobe_path"
    /\ Gate("check_proc_modprobe_path",
         "find_precompiled_kernel_interface", "install_kernel_module:FALSE")

\* if (find_precompiled_kernel_interface(op, p)) { link ... } else { build ... }
find_precompiled_kernel_interface ==
    /\ pc = "find_precompiled_kernel_interface"
    /\ Gate("find_precompiled_kernel_interface",
         "link_kernel_module", "check_development_tools")

\* link_kernel_module that falls back to a source build when linking fails.
link_kernel_module_fallback ==
    /\ pc = "link_kernel_module"
    /\ Gate("link_kernel_module", "test_kernel_module", "check_development_tools")

\* if (!link_kernel_module(op, p)) return FALSE;
link_kernel_module ==
    /\ pc = "link_kernel_module"
    /\ Gate("link_kernel_module",
         "test_kernel_module", "install_kernel_module:FALSE")

\* if (!check_development_tools(op, p)) return FALSE;
check_development_tools ==
    /\ pc = "check_development_tools"
    /\ Gate("check_development_tools",
         "check_cc_version", "install_kernel_module:FALSE")

\* check_cc_version whose result is not looked at.
check_cc_version_unchecked ==
    /\ pc = "check_cc_version"
    /\ Advisory("check_cc_version", "determine_kernel_source_path")

\* if (!check_cc_version(op, p)) return FALSE;
check_cc_version ==
    /\ pc = "check_cc_version"
    /\ Gate("check_cc_version",
         "determine_kernel_source_path", "install_kernel_module:FALSE")

\* if (!determine_kernel_source_path(op, p)) return FALSE;
determine_kernel_source_path ==
    /\ pc = "determine_kernel_source_path"
    /\ Gate("determine_kernel_source_path",
         "build_kernel_module", "install_kernel_module:FALSE")

\* if (!build_kernel_module(op, p)) return FALSE;
build_kernel_module ==
    /\ pc = "build_kernel_module"
    /\ Gate("build_kernel_module",
         "test_kernel_module", "install_kernel_module:FALSE")

\* test_kernel_module whose result is not looked at.
test_kernel_module_unchecked ==
    /\ pc = "test_kernel_module"
    /\ Advisory("test_kernel_module", "add_kernel_module_to_package")

\* if (!test_kernel_module(op, p)) return FALSE;
test_kernel_module ==
    /\ pc = "test_kernel_module"
    /\ Gate("test_kernel_module",
         "add_kernel_module_to_package", "install_kernel_module:FALSE")

\* if (!add_kernel_module_to_package(op, p)) return FALSE;
\* return TRUE;
add_kernel_module_to_package ==
    /\ pc = "add_kernel_module_to_package"
    /\ Gate("add_kernel_module_to_package",
         "install_kernel_module:TRUE", "install_kernel_module:FALSE")

----------------------------------------------------------------------------
(* add_this_kernel()                                                       *)

\* if ((p = parse_manifest(op)) == NULL) goto failed;
atk_parse_manifest ==
    /\ pc = "atk_parse_manifest"
    /\ ParseManifest("atk_determine_kernel_source_path", "atk_failed")

\* if (!determine_kernel_source_path(op, p)) goto failed;
atk_determine_kernel_source_path ==
    /\ pc = "atk_determine_kernel_source_path"
    /\ Gate("determine_kernel_source_path",
         "atk_build_kernel_interface", "atk_failed")

\* if (!build_kernel_interface(op, p)) goto failed;
atk_build_kernel_interface ==
    /\ pc = "atk_build_kernel_interface"
    /\ Gate("build_kernel_interface",
         "atk_pack_precompiled_kernel_interface", "atk_failed")

\* if (!pack_precompiled_kernel_interface(op, p)) goto failed;
atk_pack_precompiled_kernel_interface ==
    /\ pc = "atk_pack_precompiled_kernel_interface"
    /\ Gate("pack_precompiled_kernel_interface",
         "atk_free_package", "atk_failed")

\* free_package(p);
\* return TRUE;
atk_return_TRUE ==
    /\ pc = "atk_free_package"
    /\ pkg_frees' = free_package(p)
    /\ ret' = "TRUE"
    /\ outcome' = "Success"
    /\ pc' = "returned"
    /\ UNCHANGED << pvars, entry, op, op0, NV_X86_64, p, ran_pre_install_hook, calls,
                    pkg_allocs >>

\* failed:
\*     ui_error(op, "Unable to add a precompiled kernel interface ...");
\*     free_package(p);
\*     return FALSE;
atk_failed ==
    /\ pc = "atk_failed"
    /\ calls' = Log("ui_error:Unable to add a precompiled kernel interface", TRUE)
    /\ pkg_frees' = free_package(p)
    /\ ret' = "FALSE"
    /\ outcome' = "Failed"
    /\ pc' = "returned"
    /\ UNCHANGED << pvars, entry, op, op0, NV_X86_64, p, ran_pre_install_hook, pkg_allocs >>

----------------------------------------------------------------------------

Next ==
    \/ parse_manifest
    \/ check_for_nvidia_graphics_devices
    \/ check_for_running_x
    \/ check_for_unloaded_kernel_module
    \/ get_license_acceptance
    \/ check_for_existing_driver
    \/ run_distro_hook_pre_install
    \/ check_for_nouveau
    \/ kernel_module
    \/ install_kernel_module_return
    \/ remove_non_kernel_module_files_from_package
    \/ get_prefixes
    \/ should_install_opengl_headers
    \/ select_tls_class
    \/ process_libGL_la_files
    \/ process_dot_desktop_files
    \/ should_install_compat32_files
    \/ remove_opengl_files_from_package
    \/ set_destinations
    \/ uninstall_existing_driver
    \/ build_command_list
    \/ ui_approve_command_list
    \/ init_backup
    \/ do_install
    \/ dkms_install_module
    \/ run_distro_hook_post_install
    \/ check_installed_files_from_package
    \/ check_sysvipc
    \/ check_runtime_configuration
    \/ installation_complete
    \/ return_TRUE
    \/ failed
    \/ exit_install
    \/ determine_kernel_module_installation_path
    \/ check_proc_modprobe_path
    \/ find_precompiled_kernel_interface
    \/ link_kernel_module
    \/ check_development_tools
    \/ check_cc_version
    \/ determine_kernel_source_path
    \/ build_kernel_module
    \/ test_kernel_module
    \/ add_kernel_module_to_package
    \/ atk_parse_manifest
    \/ atk_determine_kernel_source_path
    \/ atk_build_kernel_interface
    \/ atk_pack_precompiled_kernel_interface
    \/ atk_return_TRUE
    \/ atk_failed

Spec == Init /\ [][Next]_vars

----------------------------------------------------------------------------
(* Strings.  A string is a sequence of characters; a token the parser      *)
(* compares as a whole, such as "OPENGL_LIB", stands as one character for  *)
(* the run of its letters.                                                  *)

\* isspace(): the characters that separate words.
Space == { " " }

\* The characters strtol(s, &endptr, 8) accepts, in the order of their value.
OctalDigits == << "0", "1", "2", "3", "4", "5", "6", "7" >>

RECURSIVE SkipSpace(_)
\* The string from its first character that is not white space.
SkipSpace(s) ==
    IF s # << >> /\ Head(s) \in Space THEN SkipSpace(Tail(s)) ELSE s

RECURSIVE WordLength(_)
\* The number of characters before the first white space.
WordLength(s) ==
    IF s = << >> \/ Head(s) \in Space THEN 0 ELSE 1 + WordLength(Tail(s))

\* read_next_word(buf, &e): the next white-space-delimited word of buf, or
\* NULL when none is left; e is where the reading stopped.
read_next_word(buf) ==
    LET s == SkipSpace(buf)
        n == WordLength(s)
    IN  IF n = 0
        THEN [word |-> NULL, e |-> s]
        ELSE [word |-> SubSeq(s, 1, n), e |-> SubSeq(s, n + 1, Len(s))]

\* get_next_line(buf, &e, start, length): the line that starts at buf, without
\* its end-of-line, or NULL when buf is at the end of the mapped file; e is
\* the start of the line after it.  A position is the index of a line.
get_next_line(buf) ==
    IF buf > Len(manifest)
    THEN [line |-> NULL, e |-> buf]
    ELSE [line |-> manifest[buf], e |-> buf + 1]

RECURSIVE remove_trailing_slashes(_)
\* remove_trailing_slashes(s): s without the '/' characters at its end.
remove_trailing_slashes(s) ==
    IF s # << >> /\ s[Len(s)] = "/"
    THEN remove_trailing_slashes(SubSeq(s, 1, Len(s) - 1))
    ELSE s

\* The value of an octal digit.
DigitValue(ch) == (CHOOSE i \in DOMAIN OctalDigits : OctalDigits[i] = ch) - 1

RECURSIVE OctalValue(_)
\* The number an octal numeral denotes.
OctalValue(s) ==
    IF s = << >> THEN 0
    ELSE 8 * OctalValue(SubSeq(s, 1, Len(s) - 1)) + DigitValue(s[Len(s)])

\* mode_string_to_mode(op, s, &mode): FALSE when s is no octal numeral,
\* otherwise TRUE with the numeral's value in mode.
mode_string_to_mode(s) ==
    IF s # << >> /\ \A i \in DOMAIN s : \E d \in DOMAIN OctalDigits : OctalDigits[d] = s[i]
    THEN [ret |-> TRUE, mode |-> OctalValue(s)]
    ELSE [ret |-> FALSE, mode |-> 0]

\* strrchr(s, ch): the index of the last ch in s, or 0 (the null pointer).
strrchr(s, ch) ==
    IF \E i \in DOMAIN s : s[i] = ch
    THEN CHOOSE i \in DOMAIN s : s[i] = ch /\ \A j \in DOMAIN s : s[j] = ch => j <= i
    ELSE 0

\* do { ... read_next_word(c, &c) } while (p->bad_modules[n-1]): the words
\* of a line as an array that ends with a null pointer.
RECURSIVE ReadWordArray(_)
ReadWordArray(c) ==
    LET w == read_next_word(c)
    IN  IF w.word = NULL THEN << NULL >> ELSE << w.word >> \o ReadWordArray(w.e)

----------------------------------------------------------------------------
(* File types                                                               *)

\* The type tokens of a file entry and the type bit each one sets.
FileTypeTokens ==
    << << "KERNEL_MODULE_SRC",     "FILE_TYPE_KERNEL_MODULE_SRC" >>,
       << "KERNEL_MODULE_CMD",     "FILE_TYPE_KERNEL_MODULE_CMD" >>,
       << "OPENGL_HEADER",         "FILE_TYPE_OPENGL_HEADER" >>,
       << "CUDA_ICD",              "FILE_TYPE_CUDA_ICD" >>,
       << "OPENGL_LIB",            "FILE_TYPE_OPENGL_LIB" >>,
       << "CUDA_LIB",              "FILE_TYPE_CUDA_LIB" >>,
       << "LIBGL_LA",              "FILE_TYPE_LIBGL_LA" >>,
       << "XLIB_STATIC_LIB",       "FILE_TYPE_XLIB_STATIC_LIB" >>,
       << "XLIB_SHARED_LIB",       "FILE_TYPE_XLIB_SHARED_LIB" >>,
       << "TLS_LIB",               "FILE_TYPE_TLS_LIB" >>,
       << "UTILITY_LIB",           "FILE_TYPE_UTILITY_LIB" >>,
       << "DOCUMENTATION",         "FILE_TYPE_DOCUMENTATION" >>,
       << "MANPAGE",               "FILE_TYPE_MANPAGE" >>,
       << "EXPLICIT_PATH",         "FILE_TYPE_EXPLICIT_PATH" >>,
       << "OPENGL_SYMLINK",        "FILE_TYPE_OPENGL_SYMLINK" >>,
       << "CUDA_SYMLINK",          "FILE_TYPE_CUDA_SYMLINK" >>,
       << "XLIB_SYMLINK",          "FILE_TYPE_XLIB_SYMLINK" >>,
       << "TLS_SYMLINK",           "FILE_TYPE_TLS_SYMLINK" >>,
       << "UTILITY_LIB_SYMLINK",   "FILE_TYPE_UTILITY_LIB_SYMLINK" >>,
       << "INSTALLER_BINARY",      "FILE_TYPE_INSTALLER_BINARY" >>,
       << "UTILITY_BINARY",        "FILE_TYPE_UTILITY_BINARY" >>,
       << "UTILITY_BIN_SYMLINK",   "FILE_TYPE_UTILITY_BIN_SYMLINK" >>,
       << "DOT_DESKTOP",           "FILE_TYPE_DOT_DESKTOP" >>,
       << "XMODULE_SHARED_LIB",    "FILE_TYPE_XMODULE_SHARED_LIB" >>,
       << "XMODULE_SYMLINK",       "FILE_TYPE_XMODULE_SYMLINK" >>,
       << "GLX_MODULE_SHARED_LIB", "FILE_TYPE_GLX_MODULE_SHARED_LIB" >>,
       << "GLX_MODULE_SYMLINK",    "FILE_TYPE_GLX_MODULE_SYMLINK" >>,
       << "XMODULE_NEWSYM",        "FILE_TYPE_XMODULE_NEWSYM" >>,
       << "VDPAU_LIB",             "FILE_TYPE_VDPAU_LIB" >>,
       << "VDPAU_SYMLINK",         "FILE_TYPE_VDPAU_SYMLINK" >>,
       << "NVCUVID_LIB",           "FILE_TYPE_NVCUVID_LIB" >>,
       << "NVCUVID_LIB_SYMLINK",   "FILE_TYPE_NVCUVID_SYMLINK" >> >>

\* FILE_TYPE_MASK: the type bits.  A flags word is the set of its bits.
FILE_TYPE_MASK == { FileTypeTokens[i][2] : i \in DOMAIN FileTypeTokens }

\* The two architecture bits and the two class bits.
FILE_CLASS_ARCH == { "FILE_CLASS_COMPAT32", "FILE_CLASS_NATIVE" }

FILE_CLASS_TLS == { "FILE_CLASS_CLASSIC_TLS", "FILE_CLASS_NEW_TLS" }

\* The file types that are symbolic links.
FILE_TYPE_SYMLINK ==
    { "FILE_TYPE_OPENGL_SYMLINK", "FILE_TYPE_CUDA_SYMLINK", "FILE_TYPE_XLIB_SYMLINK",
      "FILE_TYPE_TLS_SYMLINK", "FILE_TYPE_UTILITY_LIB_SYMLINK",
      "FILE_TYPE_UTILITY_BIN_SYMLINK", "FILE_TYPE_XMODULE_SYMLINK",
      "FILE_TYPE_GLX_MODULE_SYMLINK", "FILE_TYPE_VDPAU_SYMLINK",
      "FILE_TYPE_NVCUVID_SYMLINK" }

\* The file types whose entry line carries an architecture, a class, a path,
\* a target.
FILE_TYPE_HAVE_ARCH ==
    { "FILE_TYPE_OPENGL_LIB", "FILE_TYPE_OPENGL_SYMLINK", "FILE_TYPE_CUDA_LIB",
      "FILE_TYPE_CUDA_SYMLINK", "FILE_TYPE_LIBGL_LA", "FILE_TYPE_TLS_LIB",
      "FILE_TYPE_TLS_SYMLINK", "FILE_TYPE_VDPAU_LIB", "FILE_TYPE_VDPAU_SYMLINK",
      "FILE_TYPE_NVCUVID_LIB", "FILE_TYPE_NVCUVID_SYMLINK" }

FILE_TYPE_HAVE_CLASS == { "FILE_TYPE_TLS_LIB", "FILE_TYPE_TLS_SYMLINK" }

FILE_TYPE_HAVE_PATH ==
    { "FILE_TYPE_XMODULE_SHARED_LIB", "FILE_TYPE_XMODULE_SYMLINK",
      "FILE_TYPE_XMODULE_NEWSYM", "FILE_TYPE_MANPAGE", "FILE_TYPE_OPENGL_HEADER",
      "FILE_TYPE_CUDA_LIB", "FILE_TYPE_CUDA_SYMLINK", "FILE_TYPE_TLS_LIB",
      "FILE_TYPE_TLS_SYMLINK", "FILE_TYPE_DOT_DESKTOP", "FILE_TYPE_DOCUMENTATION" }

FILE_TYPE_HAVE_TARGET == FILE_TYPE_SYMLINK \cup { "FILE_TYPE_XMODULE_NEWSYM" }

\* flags & mask
Has(flags, mask) == flags \cap mask # {}

----------------------------------------------------------------------------
(* The Package and its entries                                              *)

\* nvalloc(sizeof (Package)): every field zero.
ZeroPackage ==
    [ description |-> NULL, version |-> NULL, kernel_module_filename |-> NULL,
      kernel_interface_filename |-> NULL, kernel_module_name |-> NULL,
      bad_modules |-> NULL, bad_module_filenames |-> NULL,
      kernel_module_build_directory |-> NULL,
      precompiled_kernel_interface_directory |-> NULL,
      num_entries |-> 0, entries |-> << >> ]

\* memset(&p->entries[n], 0, sizeof(PackageEntry))
ZeroEntry ==
    [ file |-> NULL, path |-> NULL, name |-> NULL, target |-> NULL, dst |-> NULL,
      flags |-> {}, mode |-> 0, inode |-> 0, device |-> 0 ]

\* stat(file, &stat_buf): succeeds for the files of the working directory.
stat(file) ==
    IF file \in cwd_files
    THEN [ret |-> 0, st_ino |-> Len(file), st_dev |-> 1]
    ELSE [ret |-> -1, st_ino |-> 0, st_dev |-> 0]

\* The inode and device of an entry's file, or zeros when stat fails.
StatEntry(e) ==
    LET s == stat(e.file)
    IN  IF s.ret # -1
        THEN [e EXCEPT !.inode = s.st_ino, !.device = s.st_dev]
        ELSE [e EXCEPT !.inode = 0, !.device = 0]

\* The reading of one entry line is a chain of steps, each of which takes
\* the entry so far and the rest of the line and may fail.
Read(ok, e, c) == [ok |-> ok, e |-> e, c |-> c]

\* p->entries[n].file = read_next_word(buf, &c);
ReadFile(e, c) ==
    LET w == read_next_word(c)
    IN  Read(w.word # NULL, [e EXCEPT !.file = w.word], w.e)

\* tmpstr = read_next_word(c, &c); ret = mode_string_to_mode(op, tmpstr, &mode);
ReadMode(e, c) ==
    LET w == read_next_word(c)
        m == mode_string_to_mode(w.word)
    IN  IF w.word = NULL THEN Read(FALSE, e, w.e)
        ELSE IF ~m.ret THEN Read(FALSE, e, w.e)
        ELSE Read(TRUE, [e EXCEPT !.mode = m.mode], w.e)

\* flags = 0x0; flag = read_next_word(c, &c); the strcmp chain.
ReadType(e, c) ==
    LET w == read_next_word(c)
        e0 == [e EXCEPT !.flags = {}]
    IN  IF w.word = NULL THEN Read(FALSE, e0, w.e)
        ELSE IF \E i \in DOMAIN FileTypeTokens : w.word = << FileTypeTokens[i][1] >>
        THEN LET i == CHOOSE j \in DOMAIN FileTypeTokens :
                          /\ w.word = << FileTypeTokens[j][1] >>
                          /\ \A k \in 1..(j - 1) : w.word # << FileTypeTokens[k][1] >>
             IN  Read(TRUE, [e0 EXCEPT !.flags = @ \cup { FileTypeTokens[i][2] }], w.e)
        ELSE Read(FALSE, e0, w.e)

\* if (flags & FILE_TYPE_HAVE_ARCH) { COMPAT32 or NATIVE }
ReadArch(e, c) ==
    IF Has(e.flags, FILE_TYPE_HAVE_ARCH)
    THEN LET w == read_next_word(c)
         IN  IF w.word = NULL THEN Read(FALSE, e, w.e)
             ELSE IF w.word = << "COMPAT32" >>
             THEN Read(TRUE, [e EXCEPT !.flags = @ \cup { "FILE_CLASS_COMPAT32" }], w.e)
             ELSE IF w.word = << "NATIVE" >>
             THEN Read(TRUE, [e EXCEPT !.flags = @ \cup { "FILE_CLASS_NATIVE" }], w.e)
             ELSE Read(FALSE, e, w.e)
    ELSE Read(TRUE, e, c)

\* if (flags & FILE_TYPE_HAVE_CLASS) { CLASSIC or NEW }
ReadClass(e, c) ==
    IF Has(e.flags, FILE_TYPE_HAVE_CLASS)
    THEN LET w == read_next_word(c)
         IN  IF w.word = NULL THEN Read(FALSE, e, w.e)
             ELSE IF w.word = << "CLASSIC" >>
             THEN Read(TRUE, [e EXCEPT !.flags = @ \cup { "FILE_CLASS_CLASSIC_TLS" }], w.e)
             ELSE IF w.word = << "NEW" >>
             THEN Read(TRUE, [e EXCEPT !.flags = @ \cup { "FILE_CLASS_NEW_TLS" }], w.e)
             ELSE Read(FALSE, e, w.e)
    ELSE Read(TRUE, e, c)

\* ReadPath that takes the next word for the path whatever the type.
ReadPath_always(e, c) ==
    LET w == read_next_word(c)
    IN  Read(TRUE, [e EXCEPT !.path = w.word], w.e)

\* if (flags & FILE_TYPE_HAVE_PATH) path = read_next_word(c, &c); else path = NULL;
ReadPath(e, c) ==
    IF Has(e.flags, FILE_TYPE_HAVE_PATH)
    THEN LET w == read_next_word(c)
         IN  Read(w.word # NULL, [e EXCEPT !.path = w.word], w.e)
    ELSE Read(TRUE, [e EXCEPT !.path = NULL], c)

\* if (flags & FILE_TYPE_HAVE_TARGET) target = read_next_word(c, &c); else target = NULL;
ReadTarget(e, c) ==
    IF Has(e.flags, FILE_TYPE_HAVE_TARGET)
    THEN LET w == read_next_word(c)
         IN  Read(w.word # NULL, [e EXCEPT !.target = w.word], w.e)
    ELSE Read(TRUE, [e EXCEPT !.target = NULL], c)

\* SetName that takes the whole of file for the name.
SetName_whole(e, c) == Read(TRUE, [e EXCEPT !.name = e.file], c)

\* name = strrchr(file, '/'); if (name) name++; if (!name) name = file;
SetName(e, c) ==
    LET i == strrchr(e.file, "/")
    IN  Read(TRUE,
             [e EXCEPT !.name = IF i # 0 THEN SubSeq(e.file, i + 1, Len(e.file))
                                ELSE e.file],
             c)

\* stat(p->entries[n].file, &entry_stat_buf)
SetInode(e, c) == Read(TRUE, StatEntry(e), c)

\* The next step of reading an entry, taken unless an earlier one failed.
After(r, step) ==
    IF ~r.ok THEN r
    ELSE CASE step = "mode" -> ReadMode(r.e, r.c)
           [] step = "type" -> ReadType(r.e, r.c)
           [] step = "arch" -> ReadArch(r.e, r.c)
           [] step = "class" -> ReadClass(r.e, r.c)
           [] step = "path" -> ReadPath(r.e, r.c)
           [] step = "target" -> ReadTarget(r.e, r.c)
           [] step = "name" -> SetName(r.e, r.c)
           [] step = "inode" -> SetInode(r.e, r.c)

\* The body of the entry loop for the line buf: the entry as far as it was
\* filled, and whether the line was accepted.
ReadEntry(buf) ==
    After(After(After(After(After(After(After(After(ReadFile(ZeroEntry, buf),
        "mode"), "type"), "arch"), "class"), "path"), "target"), "name"), "inode")

----------------------------------------------------------------------------
(* The manifests and working directories parse_manifest() is run on         *)

\* The largest number of lines after the eight header lines of a manifest.
MaxEntryLines == 2

\* The largest number of add_package_entry() calls on a parsed Package.
MaxAdds == 1

RECURSIVE Join(_)
\* The line made of the given words, one space between two words.
Join(words) ==
    IF words = << >> THEN << >>
    ELSE IF Len(words) = 1 THEN words[1]
    ELSE words[1] \o << " " >> \o Join(Tail(words))

\* A manifest whose eight header lines are all there and hold text.
DefaultHeader ==
    << << "N", " ", "V" >>,
       << "1", ".", "0" >>,
       << "k", ".", "o" >>,
       << "n" >>,
       << "m", " ", " ", "n" >>,
       << "m", ".", "o" >>,
       << "d", "/", "a", "/", "/" >>,
       << "d", "/" >> >>

\* Other texts for one header line: an empty line, white space only, a lone
\* slash, one word, words between spaces, a directory with trailing slashes.
HeaderVariants ==
    { << >>, << " " >>, << "/" >>, << "a" >>, << " ", "a", " ", "b", " " >>,
      << "/", "d", "/", "/" >> }

\* Entry lines the parser accepts, as their words: one for each combination
\* of architecture, class, path and target that a file type asks for.
FullLines ==
    << << << "a" >>, << "0", "6", "4", "4" >>, << "KERNEL_MODULE_SRC" >> >>,
       << << "d", "/", "a" >>, << "7", "5", "5" >>, << "OPENGL_LIB" >>, << "NATIVE" >> >>,
       << << "a" >>, << "0", "6", "4", "4" >>, << "TLS_LIB" >>, << "COMPAT32" >>,
          << "NEW" >>, << "d", "/" >> >>,
       << << "d", "/", "d", "/", "a" >>, << "0", "7", "7", "7" >>, << "TLS_SYMLINK" >>,
          << "NATIVE" >>, << "CLASSIC" >>, << "d" >>, << "a" >> >>,
       << << "d", "/" >>, << "4", "4", "4" >>, << "DOCUMENTATION" >>, << "d" >> >>,
       << << "/", "a" >>, << "0" >>, << "XLIB_SYMLINK" >>, << "d", "/", "a" >> >>,
       << << "a" >>, << "0", "6", "4", "4" >>, << "NVCUVID_LIB_SYMLINK" >>,
          << "COMPAT32" >>, << "a" >> >> >>

\* The words with the i-th one replaced by a token no table holds.
Mangle(words, i) ==
    [ k \in DOMAIN words |-> IF k = i THEN << "BOGUS" >> ELSE words[k] ]

\* The accepted entry lines.
GoodLines == { Join(FullLines[i]) : i \in DOMAIN FullLines }

\* The lines that come before the last line of a manifest: an accepted line
\* with no optional field, one with all four, one with a path, or an empty
\* line.
EarlierLines == { Join(FullLines[1]), Join(FullLines[4]), Join(FullLines[5]), << >> }

\* The given words cut after any number of them, with any one replaced.
EntryLinesOf(words) ==
    { Join(Mangle(SubSeq(words, 1, n), k)) :
        n \in 0..Len(words), k \in 0..Len(words) }

\* Entry lines: each accepted line, cut and with a word replaced; a line of
\* white space; a line with spaces around its words and with words after
\* the last one the parser reads.
EntryLines ==
    UNION { EntryLinesOf(FullLines[i]) : i \in DOMAIN FullLines }
    \cup { << " ", " " >>,
           << " " >> \o Join(FullLines[2]) \o << " ", " ", "x", " " >> }

\* The lines after the header, n of them: earlier lines, then any entry line.
EntrySeqsOfLength(n) ==
    { g \o << l >> : g \in [1..(n - 1) -> EarlierLines], l \in EntryLines }

EntrySeqs == { << >> } \cup UNION { EntrySeqsOfLength(n) : n \in 1..MaxEntryLines }

\* The manifests: the header cut after any of its lines; the header with one
\* line replaced, alone or before an entry; the header before entry lines.
Manifests ==
    { SubSeq(DefaultHeader, 1, h) : h \in 0..7 }
    \cup { [DefaultHeader EXCEPT ![k] = v] \o es :
             k \in 1..8, v \in HeaderVariants,
             es \in { << >>, << Join(FullLines[1]) >> } }
    \cup { DefaultHeader \o es : es \in EntrySeqs }

\* The working directories: no file of the package is there, or "a" is.
WorkingDirectories == { {}, { << "a" >> } }

\* The arguments of an add_package_entry() call.
AddArguments ==
    { [ file |-> f, name |-> n, path |-> r.path, target |-> r.target,
        dst |-> r.dst, flags |-> r.flags, mode |-> r.mode ] :
        f \in { << "a" >>, << "d", "/", "a" >> },
        n \in { << "a" >>, << "b" >> },
        r \in { [ path |-> NULL, target |-> NULL, dst |-> NULL,
                  flags |-> { "FILE_TYPE_KERNEL_MODULE_SRC" }, mode |-> 0 ],
                [ path |-> << "d" >>, target |-> << "a" >>, dst |-> << "d", "/", "a" >>,
                  flags |-> { "FILE_TYPE_TLS_SYMLINK", "FILE_CLASS_NATIVE",
                              "FILE_CLASS_NEW_TLS" },
                  mode |-> OctalValue(<< "6", "4", "4" >>) ] } }

\* The state at the call of parse_manifest(): the caller's state stays as it
\* is at the call.
InitParse ==
    /\ entry = "install_from_cwd"
    /\ pc = "parse_manifest"
    /\ op = CHOOSE o \in Options : \A f \in DOMAIN o : ~o[f]
    /\ op0 = op
    /\ NV_X86_64 = TRUE
    /\ p = "NULL"
    /\ ran_pre_install_hook = FALSE
    /\ calls = << >>
    /\ pkg_allocs = 0
    /\ pkg_frees = 0
    /\ outcome = "Running"
    /\ ret = "none"
    /\ manifest \in Manifests
    /\ cwd_files \in WorkingDirectories
    /\ pm_pc = "open"
    /\ pkg = NULL
    /\ line = 0
    /\ ptr = 0
    /\ fd = -1
    /\ mapped = FALSE
    /\ sys = [open |-> 0, close |-> 0, mmap |-> 0, munmap |-> 0]
    /\ pm_frees = 0
    /\ pm_errors = << >>
    /\ pm_ret = "none"
    /\ adds = 0

----------------------------------------------------------------------------
(* parse_manifest(), step by step                                           *)

\* What parse_manifest() leaves alone: the caller's state and the files.
ParseFrame == UNCHANGED << ivars, manifest, cwd_files, adds >>

\* ui_error(op, msg) of parse_manifest(); n is the line number it names, or 0.
Error(msg, n) == Append(pm_errors, [msg |-> msg, line |-> n])

\* p = nvalloc(sizeof (Package)); if ((fd = open(".manifest", O_RDONLY)) == -1)
\* { ui_error(...); goto fail; }
pm_open ==
    /\ pm_pc = "open"
    /\ pkg' = ZeroPackage
    /\ \E ok \in BOOLEAN :
         IF ok
         THEN /\ fd' = 3
              /\ sys' = [sys EXCEPT !.open = @ + 1]
              /\ pm_pc' = "fstat"
              /\ UNCHANGED pm_errors
         ELSE /\ fd' = -1
              /\ pm_errors' = Error("No package found for installation.", 0)
              /\ pm_pc' = "fail"
              /\ UNCHANGED sys
    /\ UNCHANGED << line, ptr, mapped, pm_frees, pm_ret >>
    /\ ParseFrame

\* if (fstat(fd, &stat_buf) == -1) goto cannot_open; len = stat_buf.st_size;
pm_fstat ==
    /\ pm_pc = "fstat"
    /\ \E ok \in BOOLEAN : pm_pc' = IF ok THEN "mmap" ELSE "cannot_open"
    /\ UNCHANGED << pkg, line, ptr, fd, mapped, sys, pm_frees, pm_errors, pm_ret >>
    /\ ParseFrame

\* manifest = mmap(0, len, ...); if (manifest == MAP_FAILED) goto cannot_open;
pm_mmap ==
    /\ pm_pc = "mmap"
    /\ \E ok \in BOOLEAN :
         IF ok
         THEN /\ mapped' = TRUE
              /\ sys' = [sys EXCEPT !.mmap = @ + 1]
              /\ pm_pc' = "description"
         ELSE /\ pm_pc' = "cannot_open"
              /\ UNCHANGED << mapped, sys >>
    /\ UNCHANGED << pkg, line, ptr, fd, pm_frees, pm_errors, pm_ret >>
    /\ ParseFrame

\* What a header field gets from its line: the text as it is, its words, or
\* the text without trailing slashes.
HeaderValue(kind, s) ==
    CASE kind = "line" -> s
      [] kind = "words" -> ReadWordArray(s)
      [] kind = "directory" -> remove_trailing_slashes(s)

\* A header line: line number n, read from position from; when it is there,
\* the field gets its value of the given kind, otherwise goto
\* invalid_manifest_file.
HeaderLine(n, from, field, kind, next) ==
    LET r == get_next_line(from)
    IN  /\ line' = n
        /\ ptr' = r.e
        /\ IF r.line = NULL
           THEN /\ pm_pc' = "invalid_manifest_file"
                /\ UNCHANGED pkg
           ELSE /\ pm_pc' = next
                /\ pkg' = [pkg EXCEPT ![field] = HeaderValue(kind, r.line)]
        /\ UNCHANGED << fd, mapped, sys, pm_frees, pm_errors, pm_ret >>
        /\ ParseFrame

\* pm_version without its line++.
pm_version_unnumbered ==
    /\ pm_pc = "version"
    /\ HeaderLine(line, ptr, "version", "line", "kernel_interface_filename")

\* line = 1; p->description = get_next_line(manifest, &ptr, manifest, len);
pm_description ==
    /\ pm_pc = "description"
    /\ HeaderLine(1, 1, "description", "line", "version")

\* line++; p->version = get_next_line(ptr, &ptr, manifest, len);
pm_version ==
    /\ pm_pc = "version"
    /\ HeaderLine(line + 1, ptr, "version", "line", "kernel_interface_filename")

\* line++; p->kernel_interface_filename = get_next_line(ptr, &ptr, manifest, len);
pm_kernel_interface_filename ==
    /\ pm_pc = "kernel_interface_filename"
    /\ HeaderLine(line + 1, ptr, "kernel_interface_filename", "line",
                  "kernel_module_name")

\* pm_kernel_module_name that takes an empty line for a missing one.
pm_kernel_module_name_nonempty ==
    /\ pm_pc = "kernel_module_name"
    /\ IF get_next_line(ptr).line = << >>
       THEN /\ line' = line + 1
            /\ ptr' = ptr + 1
            /\ pm_pc' = "invalid_manifest_file"
            /\ UNCHANGED << pkg, fd, mapped, sys, pm_frees, pm_errors, pm_ret >>
            /\ ParseFrame
       ELSE HeaderLine(line + 1, ptr, "kernel_module_name", "line", "bad_modules")

\* line++; p->kernel_module_name = get_next_line(ptr, &ptr, manifest, len);
pm_kernel_module_name ==
    /\ pm_pc = "kernel_module_name"
    /\ HeaderLine(line + 1, ptr, "kernel_module_name", "line", "bad_modules")

\* line++; tmpstr = get_next_line(...); the words of tmpstr into p->bad_modules
pm_bad_modules ==
    /\ pm_pc = "bad_modules"
    /\ HeaderLine(line + 1, ptr, "bad_modules", "words", "bad_module_filenames")

\* line++; tmpstr = get_next_line(...); the words into p->bad_module_filenames
pm_bad_module_filenames ==
    /\ pm_pc = "bad_module_filenames"
    /\ HeaderLine(line + 1, ptr, "bad_module_filenames", "words",
                  "kernel_module_build_directory")

\* pm_kernel_module_build_directory without remove_trailing_slashes().
pm_kernel_module_build_directory_unstripped ==
    /\ pm_pc = "kernel_module_build_directory"
    /\ HeaderLine(line + 1, ptr, "kernel_module_build_directory",
                  "line", "precompiled_kernel_interface_directory")

\* line++; p->kernel_module_build_directory = get_next_line(...);
\* remove_trailing_slashes(p->kernel_module_build_directory);
pm_kernel_module_build_directory ==
    /\ pm_pc = "kernel_module_build_directory"
    /\ HeaderLine(line + 1, ptr, "kernel_module_build_directory",
                  "directory", "precompiled_kernel_interface_directory")

\* line++; p->precompiled_kernel_interface_directory = get_next_line(...);
\* remove_trailing_slashes(...); done = FALSE; line++;
pm_precompiled_kernel_interface_directory ==
    /\ pm_pc = "precompiled_kernel_interface_directory"
    /\ LET r == get_next_line(ptr)
       IN  /\ ptr' = r.e
           /\ IF r.line = NULL
              THEN /\ line' = line + 1
                   /\ pm_pc' = "invalid_manifest_file"
                   /\ UNCHANGED pkg
              ELSE /\ line' = line + 2
                   /\ pm_pc' = "entries"
                   /\ pkg' = [pkg EXCEPT !.precompiled_kernel_interface_directory =
                                            remove_trailing_slashes(r.line)]
    /\ UNCHANGED << fd, mapped, sys, pm_frees, pm_errors, pm_ret >>
    /\ ParseFrame

\* pm_entry that counts and keeps an entry only once its line was read.
pm_entry_count_last ==
    /\ pm_pc = "entries"
    /\ LET r == get_next_line(ptr)
           counted == [pkg EXCEPT !.num_entries = @ + 1]
           e == ReadEntry(r.line)
       IN  /\ ptr' = r.e
           /\ IF r.line = NULL \/ r.line = << >>
              THEN /\ line' = line + 1
                   /\ pm_pc' = "return_p"
                   /\ UNCHANGED << pkg, pm_errors >>
              ELSE \E room \in BOOLEAN :
                     IF ~room
                     THEN /\ pkg' = [counted EXCEPT !.entries = << >>]
                          /\ pm_errors' = Error("Memory allocation failure.", 0)
                          /\ pm_pc' = "fail"
                          /\ UNCHANGED line
                     ELSE /\ pkg' = IF e.ok
                                    THEN [counted EXCEPT !.entries = Append(@, e.e)]
                                    ELSE pkg
                          /\ IF e.ok
                             THEN /\ line' = line + 1
                                  /\ pm_pc' = "entries"
                             ELSE /\ pm_pc' = "invalid_manifest_file"
                                  /\ UNCHANGED line
                          /\ UNCHANGED pm_errors
    /\ UNCHANGED << fd, mapped, sys, pm_frees, pm_ret >>
    /\ ParseFrame

\* pm_entry that passes over an empty line and reads on.
pm_entry_skip_empty ==
    /\ pm_pc = "entries"
    /\ LET r == get_next_line(ptr)
           counted == [pkg EXCEPT !.num_entries = @ + 1]
           e == ReadEntry(r.line)
       IN  /\ ptr' = r.e
           /\ IF r.line = NULL \/ r.line = << >>
              THEN /\ line' = line + 1
                   /\ pm_pc' = IF r.line = NULL THEN "return_p" ELSE "entries"
                   /\ UNCHANGED << pkg, pm_errors >>
              ELSE \E room \in BOOLEAN :
                     IF ~room
                     THEN /\ pkg' = [counted EXCEPT !.entries = << >>]
                          /\ pm_errors' = Error("Memory allocation failure.", 0)
                          /\ pm_pc' = "fail"
                          /\ UNCHANGED line
                     ELSE /\ pkg' = [counted EXCEPT !.entries = Append(@, e.e)]
                          /\ IF e.ok
                             THEN /\ line' = line + 1
                                  /\ pm_pc' = "entries"
                             ELSE /\ pm_pc' = "invalid_manifest_file"
                                  /\ UNCHANGED line
                          /\ UNCHANGED pm_errors
    /\ UNCHANGED << fd, mapped, sys, pm_frees, pm_ret >>
    /\ ParseFrame

\* One turn of the entry loop: buf = get_next_line(ptr, &ptr, manifest, len);
\* the end of the file or an empty line ends the loop, any other line is
\* counted, given room and read; line++ follows every turn that got through.
pm_entry ==
    /\ pm_pc = "entries"
    /\ LET r == get_next_line(ptr)
           counted == [pkg EXCEPT !.num_entries = @ + 1]
           e == ReadEntry(r.line)
       IN  /\ ptr' = r.e
           /\ IF r.line = NULL \/ r.line = << >>
              THEN /\ line' = line + 1
                   /\ pm_pc' = "return_p"
                   /\ UNCHANGED << pkg, pm_errors >>
              ELSE \E room \in BOOLEAN :
                     IF ~room
                     THEN /\ pkg' = [counted EXCEPT !.entries = << >>]
                          /\ pm_errors' = Error("Memory allocation failure.", 0)
                          /\ pm_pc' = "fail"
                          /\ UNCHANGED line
                     ELSE /\ pkg' = [counted EXCEPT !.entries = Append(@, e.e)]
                          /\ IF e.ok
                             THEN /\ line' = line + 1
                                  /\ pm_pc' = "entries"
                             ELSE /\ pm_pc' = "invalid_manifest_file"
                                  /\ UNCHANGED line
                          /\ UNCHANGED pm_errors
    /\ UNCHANGED << fd, mapped, sys, pm_frees, pm_ret >>
    /\ ParseFrame

\* munmap(manifest, len); if (fd != -1) close(fd); return p;
pm_return_p ==
    /\ pm_pc = "return_p"
    /\ mapped' = FALSE
    /\ sys' = [sys EXCEPT !.munmap = @ + 1,
                          !.close = IF fd # -1 THEN @ + 1 ELSE @]
    /\ pm_ret' = "p"
    /\ pm_pc' = "returned"
    /\ UNCHANGED << pkg, line, ptr, fd, pm_frees, pm_errors >>
    /\ ParseFrame

\* cannot_open: ui_error(op, "Failure opening package's .manifest file (%s)."); goto fail;
pm_cannot_open ==
    /\ pm_pc = "cannot_open"
    /\ pm_errors' = Error("Failure opening package's .manifest file.", 0)
    /\ pm_pc' = "fail"
    /\ UNCHANGED << pkg, line, ptr, fd, mapped, sys, pm_frees, pm_ret >>
    /\ ParseFrame

\* invalid_manifest_file: ui_error(op, "Invalid .manifest file; error on line %d.", line);
\* goto fail;
pm_invalid_manifest_file ==
    /\ pm_pc = "invalid_manifest_file"
    /\ pm_errors' = Error("Invalid .manifest file; error on line %d.", line)
    /\ pm_pc' = "fail"
    /\ UNCHANGED << pkg, line, ptr, fd, mapped, sys, pm_frees, pm_ret >>
    /\ ParseFrame

\* fail that closes the descriptor only when the file was mapped.
pm_fail_close_if_mapped ==
    /\ pm_pc = "fail"
    /\ pm_frees' = pm_frees + 1
    /\ pkg' = NULL
    /\ mapped' = FALSE
    /\ sys' = [sys EXCEPT !.munmap = IF mapped THEN @ + 1 ELSE @,
                          !.close = IF mapped THEN @ + 1 ELSE @]
    /\ pm_ret' = "NULL"
    /\ pm_pc' = "returned"
    /\ UNCHANGED << line, ptr, fd, pm_errors >>
    /\ ParseFrame

\* fail: free_package(p); if (manifest != MAP_FAILED) munmap(manifest, len);
\* if (fd != -1) close(fd); return NULL;
\* free_package() reads p->entries[i] for every i below num_entries: where
\* the array is shorter than that, the read is outside it and the process
\* may stop there instead of going on.
pm_fail ==
    /\ pm_pc = "fail"
    /\ \E stops \in { FALSE, pkg.num_entries > Len(pkg.entries) } :
         IF stops
         THEN /\ pm_pc' = "stopped"
              /\ UNCHANGED << pkg, mapped, sys, pm_frees, pm_ret >>
         ELSE /\ pm_frees' = pm_frees + 1
              /\ pkg' = NULL
              /\ mapped' = FALSE
              /\ sys' = [sys EXCEPT !.munmap = IF mapped THEN @ + 1 ELSE @,
                                    !.close = IF fd # -1 THEN @ + 1 ELSE @]
              /\ pm_ret' = "NULL"
              /\ pm_pc' = "returned"
    /\ UNCHANGED << line, ptr, fd, pm_errors >>
    /\ ParseFrame

----------------------------------------------------------------------------
(* add_package_entry()                                                      *)

\* add_package_entry that counts the entry and does not store it.
add_package_entry_count_only ==
    /\ pm_pc = "returned"
    /\ pm_ret = "p"
    /\ adds < MaxAdds
    /\ pkg' = [pkg EXCEPT !.num_entries = @ + 1]
    /\ adds' = adds + 1
    /\ UNCHANGED << ivars, manifest, cwd_files, pm_pc, line, ptr, fd, mapped, sys,
                    pm_frees, pm_errors, pm_ret >>

\* add_package_entry(p, file, path, name, target, dst, flags, mode) on the
\* Package parse_manifest() returned.
add_package_entry ==
    /\ pm_pc = "returned"
    /\ pm_ret = "p"
    /\ adds < MaxAdds
    /\ \E a \in AddArguments :
         pkg' = [pkg EXCEPT
                   !.entries = Append(@, StatEntry(
                       [ file |-> a.file, path |-> a.path, name |-> a.name,
                         target |-> a.target, dst |-> a.dst, flags |-> a.flags,
                         mode |-> a.mode, inode |-> 0, device |-> 0 ])),
                   !.num_entries = @ + 1]
    /\ adds' = adds + 1
    /\ UNCHANGED << ivars, manifest, cwd_files, pm_pc, line, ptr, fd, mapped, sys,
                    pm_frees, pm_errors, pm_ret >>

NextParse ==
    \/ pm_open
    \/ pm_fstat
    \/ pm_mmap
    \/ pm_description
    \/ pm_version
    \/ pm_kernel_interface_filename
    \/ pm_kernel_module_name
    \/ pm_bad_modules
    \/ pm_bad_module_filenames
    \/ pm_kernel_module_build_directory
    \/ pm_precompiled_kernel_interface_directory
    \/ pm_entry
    \/ pm_return_p
    \/ pm_cannot_open
    \/ pm_invalid_manifest_file
    \/ pm_fail
    \/ add_package_entry

SpecParse == InitParse /\ [][NextParse]_vars

----------------------------------------------------------------------------
(* Reading the history.                                                    *)

Called(fn) == \E i \in DOMAIN calls : calls[i].fn = fn

Returned(fn, r) == \E i \in DOMAIN calls : calls[i] = Ev(fn, r)

\* Every call of fn comes after an earlier call of g that returned r.
OnlyAfter(fn, g, r) ==
    \A i \in DOMAIN calls :
        calls[i].fn = fn => \E j \in 1..(i - 1) : calls[j] = Ev(g, r)

InInstall == entry = "install_from_cwd"

Finished == pc = "returned"

ErrorSurfaced == Called("ui_error:Installation has failed")

Hooks == { "run_distro_hook:pre-install", "run_distro_hook:post-install",
           "run_distro_hook:failed-install" }

\* The collaborators of the stages that follow stage 6.
LaterStages ==
    { "ui_yes_no:continue", "check_for_nouveau", "find_system_util:dkms",
      "ui_yes_no:dkms", "install_kernel_module", "install_kernel_module:return",
      "determine_kernel_module_installation_path", "check_proc_modprobe_path",
      "find_precompiled_kernel_interface", "link_kernel_module",
      "check_development_tools", "check_cc_version", "determine_kernel_source_path",
      "build_kernel_module", "test_kernel_module", "add_kernel_module_to_package",
      "remove_non_kernel_module_files_from_package", "get_prefixes",
      "should_install_opengl_headers", "select_tls_class", "process_libGL_la_files",
      "process_dot_desktop_files", "should_install_compat32_files",
      "remove_opengl_files_from_package", "set_destinations",
      "uninstall_existing_driver", "build_command_list", "ui_approve_command_list",
      "init_backup", "do_install", "dkms_install_module",
      "check_installed_files_from_package", "check_sysvipc",
      "check_runtime_configuration", "ui_yes_no:nvidia-xconfig",
      "run_nvidia_xconfig", "ui_message:complete" }

\* The gates whose failure is a hard failure of install_from_cwd.
HardGates ==
    { "parse_manifest", "check_for_running_x", "check_for_unloaded_kernel_module",
      "ui_yes_no:continue", "check_for_nouveau", "install_kernel_module:return",
      "get_prefixes", "set_destinations", "uninstall_existing_driver",
      "build_command_list", "init_backup", "do_install", "dkms_install_module",
      "check_sysvipc", "check_runtime_configuration" }

\* The gates whose decline ends the run without a failure.
SoftGates ==
    { "get_license_acceptance", "check_for_existing_driver", "ui_approve_command_list" }

HardFailure == \E i \in DOMAIN calls : calls[i].fn \in HardGates /\ ~calls[i].ret

SoftDecline == \E i \in DOMAIN calls : calls[i].fn \in SoftGates /\ ~calls[i].ret

\* Stage 7 was passed: the pre-install hook succeeded, or it failed and the
\* user chose to continue.
PreInstallPassed ==
    \/ Returned("run_distro_hook:pre-install", TRUE)
    \/ Returned("ui_yes_no:continue", TRUE)

\* The entry pruning and selection steps of a run.
PruningSteps ==
    { "remove_non_kernel_module_files_from_package", "should_install_opengl_headers",
      "select_tls_class", "process_libGL_la_files", "process_dot_desktop_files",
      "should_install_compat32_files", "remove_opengl_files_from_package",
      "add_kernel_module_to_package" }

\* The steps of the source build of the kernel interface, and what follows
\* a linked or built module.
BuildSteps ==
    { "check_development_tools", "check_cc_version", "determine_kernel_source_path",
      "build_kernel_module" }

----------------------------------------------------------------------------
(* Properties.                                                             *)

\* C1: with kernel_module_only false, do_install is invoked only after
\* init_backup has returned success earlier in the run; once init_backup has
\* failed, do_install is never invoked.
C1_BackupBeforeInstall ==
    (InInstall /\ ~op0.kernel_module_only) =>
        /\ OnlyAfter("do_install", "init_backup", TRUE)
        /\ Returned("init_backup", FALSE) => ~Called("do_install")

C1_Witness ==
    InInstall /\ ~op0.kernel_module_only /\ Called("do_install")

\* C2: with kernel_module_only false, build_command_list is invoked only
\* after uninstall_existing_driver has returned success; once the uninstall
\* has failed no command list is built, approved or executed.
C2_UninstallBeforeCommandList ==
    (InInstall /\ ~op0.kernel_module_only) =>
        /\ OnlyAfter("build_command_list", "uninstall_existing_driver", TRUE)
        /\ Returned("uninstall_existing_driver", FALSE) =>
              /\ ~Called("build_command_list")
              /\ ~Called("ui_approve_command_list")
              /\ ~Called("do_install")

C2_Witness ==
    InInstall /\ ~op0.kernel_module_only /\ Called("build_command_list")

\* C3 as stated: in a run that ends through the failure handler, the
\* failed-install hook is invoked if and only if the pre-install hook was
\* executed earlier in the run, whatever its result.
C3_FailedHookIffPreInstallExecuted ==
    (InInstall /\ Finished /\ ErrorSurfaced) =>
        (Called("run_distro_hook:failed-install")
            <=> Called("run_distro_hook:pre-install"))

\* C3 as amended: the failed-install hook is invoked only after stage 7 was
\* passed (the pre-install hook succeeded, or it failed and the user chose
\* to continue), and a run that ends through the failure handler invokes it
\* if and only if stage 7 was passed; it is never invoked when the
\* pre-install hook was not executed, nor when the hook failed and the user
\* declined to continue.
C3_FailedHookIffPreInstallPassed ==
    InInstall =>
        /\ Called("run_distro_hook:failed-install") =>
              /\ PreInstallPassed
              /\ ErrorSurfaced
              /\ ran_pre_install_hook
        /\ (Finished /\ ErrorSurfaced) =>
              (Called("run_distro_hook:failed-install") <=> PreInstallPassed)
        /\ Returned("ui_yes_no:continue", FALSE) =>
              ~Called("run_distro_hook:failed-install")

C3_Witness ==
    /\ InInstall /\ Finished
    /\ Returned("run_distro_hook:pre-install", FALSE)
    /\ Called("run_distro_hook:failed-install")

\* C4: once the user has declined the license (stage 5) or the overwrite of
\* an existing driver (stage 6), nothing more is invoked: no error message,
\* no hook and no later stage appears in the run, and the run releases the
\* Package once and returns failure.
C4_SoftDeclineIsQuiet ==
    \A i \in DOMAIN calls :
        (calls[i] \in { Ev("get_license_acceptance", FALSE),
                        Ev("check_for_existing_driver", FALSE) }) =>
            /\ i = Len(calls)
            /\ \A j \in DOMAIN calls :
                  /\ calls[j].fn \notin Hooks
                  /\ calls[j].fn \notin LaterStages
                  /\ calls[j].fn # "ui_error:Installation has failed"
            /\ pc \in {"exit_install", "returned"}
            /\ Finished => (ret = "FALSE" /\ pkg_frees = 1 /\ p = "pkg")

C4_Witness ==
    /\ Finished
    /\ Returned("get_license_acceptance", FALSE)
    /\ pkg_frees = 1

\* C5: the "Installation has failed" message is surfaced exactly in the runs
\* that end in Failed, that is, in which a hard gate failed (declining to
\* continue after a failed pre-install hook included); it is never surfaced
\* in a run that ends in a soft decline or in success.
C5_ErrorIffFailed ==
    InInstall =>
        /\ ErrorSurfaced => HardFailure
        /\ Finished =>
              /\ ErrorSurfaced <=> HardFailure
              /\ ErrorSurfaced <=> (outcome = "Failed")
              /\ SoftDecline => (~ErrorSurfaced /\ outcome = "Declined")
              /\ ret = "TRUE" => (~ErrorSurfaced /\ outcome = "Success")
              /\ HardFailure \/ SoftDecline \/ ret = "TRUE"

C5_Witness ==
    /\ InInstall /\ Finished
    /\ Returned("ui_yes_no:continue", FALSE)
    /\ ErrorSurfaced

\* C6: the Package allocated for a call of install_from_cwd or add_this_kernel
\* is never released twice, and when the call has returned, on any path, it
\* has been released exactly once.
C6_ReleasedExactlyOnce ==
    /\ pkg_frees <= pkg_allocs
    /\ pkg_allocs <= 1
    /\ Finished => (pkg_allocs = 1 /\ pkg_frees = 1)

C6_Witness ==
    /\ Finished
    /\ Returned("parse_manifest", FALSE)
    /\ p = "NULL"
    /\ pkg_frees = 1

\* C7 as stated: when stage 9 is reached with kernel module installation not
\* disabled and the DKMS offer is not made (tool absent or source
\* installation disabled), install_kernel_module is invoked, for every
\* initial value of the other options.
C7_NoOfferThenAcquisition ==
    ( /\ InInstall
      /\ ~op0.no_kernel_module
      /\ Called("find_system_util:dkms")
      /\ Returned("find_system_util:dkms", FALSE) \/ op0.no_kernel_module_source ) =>
        Called("install_kernel_module")

\* C7 as amended: under the same conditions the offer is not made, and
\* install_kernel_module is invoked, as a hard gate, if and only if the dkms
\* option was not set when install_from_cwd was called; with the dkms option
\* set beforehand the acquisition is skipped.
C7_NoOfferThenAcquisitionUnlessDkms ==
    ( /\ InInstall
      /\ ~op0.no_kernel_module
      /\ Called("find_system_util:dkms")
      /\ Returned("find_system_util:dkms", FALSE) \/ op0.no_kernel_module_source ) =>
        /\ ~Called("ui_yes_no:dkms")
        /\ Called("install_kernel_module") <=> ~op0.dkms
        /\ Returned("install_kernel_module:return", FALSE) =>
              /\ pc \in {"failed", "exit_install", "returned"}
              /\ \A fn \in PruningSteps \ {"add_kernel_module_to_package"} : ~Called(fn)
              /\ Finished => (ret = "FALSE" /\ ErrorSurfaced)

C7_Witness ==
    /\ InInstall
    /\ ~op0.no_kernel_module /\ ~op0.dkms
    /\ Returned("find_system_util:dkms", FALSE)
    /\ Returned("install_kernel_module:return", FALSE)
    /\ Finished

\* C8 as stated: dkms_install_module is invoked only if the registration
\* offer was made in stage 9 and the user accepted it.
C8_DkmsOnlyIfOfferAccepted ==
    Called("dkms_install_module") => Returned("ui_yes_no:dkms", TRUE)

\* C8 as amended: dkms_install_module is invoked only after do_install has
\* succeeded and only if registration was requested in stage 9: the offer was
\* made and the user accepted it, or the offer was not made and the dkms
\* option was already set, with kernel module installation not disabled,
\* when install_from_cwd was called.
C8_DkmsOnlyIfRequested ==
    Called("dkms_install_module") =>
        /\ OnlyAfter("dkms_install_module", "do_install", TRUE)
        /\ \/ Returned("ui_yes_no:dkms", TRUE)
           \/ /\ ~Called("ui_yes_no:dkms")
              /\ op0.dkms
              /\ ~op0.no_kernel_module

C8_Witness ==
    Called("dkms_install_module") /\ Returned("ui_yes_no:dkms", TRUE)

\* C9: every pruning or selection step of a run is invoked before
\* set_destinations and none after it, and when set_destinations is invoked
\* the steps the configuration calls for have all been invoked.
C9_DestinationsAfterPruning ==
    /\ \A i, j \in DOMAIN calls :
          (calls[i].fn \in PruningSteps /\ calls[j].fn = "set_destinations") => i < j
    /\ Called("set_destinations") =>
          /\ op0.kernel_module_only =>
                Called("remove_non_kernel_module_files_from_package")
          /\ ~op0.kernel_module_only =>
                /\ Called("should_install_opengl_headers")
                /\ Called("select_tls_class")
                /\ Called("process_libGL_la_files")
                /\ Called("process_dot_desktop_files")
                /\ NV_X86_64 => Called("should_install_compat32_files")
          /\ op0.no_opengl_files => Called("remove_opengl_files_from_package")
          /\ Called("install_kernel_module") =>
                Returned("add_kernel_module_to_package", TRUE)

C9_Witness ==
    /\ Finished
    /\ Called("set_destinations")
    /\ Called("remove_opengl_files_from_package")
    /\ Called("add_kernel_module_to_package")
    /\ Called("should_install_compat32_files")

\* C10: when a precompiled kernel interface was found and linking it failed,
\* install_kernel_module returns failure at once: no build step is invoked
\* and the module is neither tested nor added to the package.
C10_LinkFailureIsFatal ==
    \A i \in DOMAIN calls :
        calls[i] = Ev("link_kernel_module", FALSE) =>
            /\ calls[i - 1] = Ev("find_precompiled_kernel_interface", TRUE)
            /\ \A fn \in BuildSteps : ~Called(fn)
            /\ ~Called("test_kernel_module")
            /\ ~Called("add_kernel_module_to_package")
            /\ pc \in {"install_kernel_module:FALSE", "failed", "exit_install",
                       "returned"}
            /\ i < Len(calls) => calls[i + 1] = Ev("install_kernel_module:return", FALSE)

C10_Witness ==
    /\ Returned("link_kernel_module", FALSE)
    /\ Returned("install_kernel_module:return", FALSE)
    /\ Finished

\* C11: build_kernel_module is invoked only when no precompiled kernel
\* interface was found and check_development_tools, check_cc_version and
\* determine_kernel_source_path have each succeeded, in that order; when
\* check_development_tools fails, nothing is compiled, tested or added to
\* the package and install_kernel_module returns failure.
C11_BuildOnlyAfterToolChecks ==
    /\ \A i \in DOMAIN calls :
          calls[i].fn = "build_kernel_module" =>
              /\ i > 4
              /\ calls[i - 4] = Ev("find_precompiled_kernel_interface", FALSE)
              /\ calls[i - 3] = Ev("check_development_tools", TRUE)
              /\ calls[i - 2] = Ev("check_cc_version", TRUE)
              /\ calls[i - 1] = Ev("determine_kernel_source_path", TRUE)
    /\ \A i \in DOMAIN calls :
          calls[i] = Ev("check_development_tools", FALSE) =>
              /\ ~Called("build_kernel_module")
              /\ ~Called("test_kernel_module")
              /\ ~Called("add_kernel_module_to_package")
              /\ i < Len(calls) =>
                    calls[i + 1] = Ev("install_kernel_module:return", FALSE)

C11_Witness ==
    /\ Returned("find_precompiled_kernel_interface", FALSE)
    /\ Returned("build_kernel_module", TRUE)
    /\ Finished

\* The module of a run was obtained: the precompiled interface was linked,
\* or the interface was built from source.
ModuleObtained ==
    \/ Returned("link_kernel_module", TRUE)
    \/ Returned("build_kernel_module", TRUE)

\* C12: add_kernel_module_to_package is invoked only after test_kernel_module
\* has succeeded, and install_kernel_module returns success exactly when
\* exactly one of link_kernel_module and build_kernel_module succeeded, the
\* test succeeded and the registration succeeded.
C12_RegisterOnlyTestedModule ==
    /\ \A i \in DOMAIN calls :
          calls[i].fn = "add_kernel_module_to_package" =>
              /\ i > 1
              /\ calls[i - 1] = Ev("test_kernel_module", TRUE)
    /\ ~(Called("link_kernel_module") /\ Called("build_kernel_module"))
    /\ Called("install_kernel_module:return") =>
          (Returned("install_kernel_module:return", TRUE) <=>
              /\ Returned("link_kernel_module", TRUE)
                    # Returned("build_kernel_module", TRUE)
              /\ Returned("test_kernel_module", TRUE)
              /\ Returned("add_kernel_module_to_package", TRUE))

C12_Witness ==
    /\ ModuleObtained
    /\ Returned("add_kernel_module_to_package", TRUE)
    /\ Returned("install_kernel_module:return", TRUE)
    /\ Finished

----------------------------------------------------------------------------
(* parse_manifest() and add_package_entry(): readers of the state           *)

\* parse_manifest() has returned.
ParseReturned == pm_ret # "none"

\* parse_manifest() returned the Package.
ParseSucceeded == pm_ret = "p"

\* The file was opened and mapped, so that its lines were read.
ManifestMapped == sys.mmap > 0

\* The one message of a failed parse names line n as the invalid one.
InvalidLine(n) ==
    pm_errors = << [msg |-> "Invalid .manifest file; error on line %d.", line |-> n] >>

\* The manifest has all of its eight header lines.
HeaderComplete == Len(manifest) >= 8

\* C13: for every k in 1..8, a mapped manifest that ends after header line
\* k-1 makes parse_manifest fail with the invalid-manifest error naming line
\* k; a manifest cut after its fifth header line names line 6.
C13_MissingHeaderLineIsReported ==
    \A k \in 1..8 :
        Len(manifest) = k - 1 /\ ManifestMapped /\ pm_pc \in {"returned", "stopped"} =>
            /\ pm_ret = "NULL"
            /\ InvalidLine(k)

C13_Witness ==
    /\ Len(manifest) = 5
    /\ pm_ret = "NULL"
    /\ InvalidLine(6)

\* The Package field that header line k goes to.
HeaderFields ==
    << "description", "version", "kernel_interface_filename", "kernel_module_name",
       "bad_modules", "bad_module_filenames", "kernel_module_build_directory",
       "precompiled_kernel_interface_directory" >>

\* The header lines that are there and empty.
EmptyHeaderLines == { k \in 1..8 : k <= Len(manifest) /\ manifest[k] = << >> }

\* C14 as stated: a manifest one of whose eight header lines is present but
\* empty is rejected with the invalid-manifest error naming that line, and
\* no Package is returned for it.
C14_EmptyHeaderLineIsRejected ==
    EmptyHeaderLines # {} /\ ManifestMapped /\ ParseReturned =>
        /\ pm_ret = "NULL"
        /\ \E k \in EmptyHeaderLines : InvalidLine(k)

\* C14, amended: parse_manifest rejects a header line only when it is
\* missing.  A manifest with all eight header lines, one of them empty, is
\* never reported invalid at a header line, and in the Package returned for
\* it the empty line's field is the empty string (lines 1-4, 7, 8) or the
\* empty list (lines 5, 6).
C14_EmptyHeaderLineIsAccepted ==
    HeaderComplete /\ EmptyHeaderLines # {} =>
        /\ \A i \in DOMAIN pm_errors : pm_errors[i].line \notin 1..8
        /\ pm_pc = "invalid_manifest_file" => line > 8
        /\ ParseSucceeded =>
              \A k \in EmptyHeaderLines :
                  pkg[HeaderFields[k]] = IF k \in {5, 6} THEN << NULL >> ELSE << >>

C14_Witness ==
    /\ HeaderComplete
    /\ EmptyHeaderLines # {}
    /\ ParseSucceeded

\* The numbers of the entry lines: the lines after the header, up to the end
\* of the manifest or the first empty line.
EntryLineNumbers ==
    { n \in 9..Len(manifest) : \A j \in 9..n : manifest[j] # << >> }

\* The entry lines with a token that is missing or not accepted.
BadEntryLines == { n \in EntryLineNumbers : ~ReadEntry(manifest[n]).ok }

\* The least number of a set of line numbers.
First(S) == CHOOSE n \in S : \A k \in S : n <= k

\* parse_manifest() has come to invalid_manifest_file from an entry line.
EntryLineRejected == pm_pc = "invalid_manifest_file" /\ line > 8

\* nvrealloc() did not fail.
MemoryAvailable ==
    \A i \in DOMAIN pm_errors : pm_errors[i].msg # "Memory allocation failure."

\* C15 as stated: when the entry line on manifest line N is rejected, the
\* error names line N, the entry count at the point of failure is the same
\* as before that line was read and no partly filled entry is retained.
C15_RejectedLineLeavesCount ==
    EntryLineRejected =>
        /\ line = First(BadEntryLines)
        /\ pkg.num_entries = line - 9
        /\ Len(pkg.entries) = line - 9

\* C15, amended: an entry line on manifest line N with an unrecognized type,
\* architecture or class token, an undecodable mode or a missing token makes
\* parse_manifest fail naming exactly line N and return no Package.  At the
\* point of failure the entry of that line is already counted and holds the
\* fields read so far, so num_entries is one more than before the line was
\* read; the whole Package, that entry included, is then released.
C15_RejectedLineIsCountedThenReleased ==
    /\ EntryLineRejected =>
          /\ line = First(BadEntryLines)
          /\ line = ptr - 1
          /\ pkg.num_entries = line - 8
          /\ Len(pkg.entries) = line - 8
    /\ ParseReturned /\ ManifestMapped /\ HeaderComplete /\ MemoryAvailable
          /\ BadEntryLines # {} =>
          /\ pm_ret = "NULL"
          /\ InvalidLine(First(BadEntryLines))
          /\ pkg = NULL
          /\ pm_frees = 1

C15_Witness ==
    /\ Len(manifest) = 10
    /\ manifest[10] = Join(Mangle(FullLines[1], 3))
    /\ pm_ret = "NULL"
    /\ InvalidLine(10)

\* The entries of the returned Package that parse_manifest() made: all but
\* those add_package_entry() appended since.
ParsedEntries ==
    IF ParseSucceeded
    THEN { pkg.entries[i] : i \in 1..(pkg.num_entries - adds) }
    ELSE {}

\* C16: every entry of a Package returned by parse_manifest has exactly one
\* file type bit, a path exactly when the type has HAVE_PATH, a target
\* exactly when the type has HAVE_TARGET, and an architecture or class bit
\* only when the type has HAVE_ARCH or HAVE_CLASS.
C16_FieldsFollowTheType ==
    \A e \in ParsedEntries :
        /\ Cardinality(e.flags \cap FILE_TYPE_MASK) = 1
        /\ e.path # NULL <=> Has(e.flags, FILE_TYPE_HAVE_PATH)
        /\ e.target # NULL <=> Has(e.flags, FILE_TYPE_HAVE_TARGET)
        /\ Has(e.flags, FILE_CLASS_ARCH) => Has(e.flags, FILE_TYPE_HAVE_ARCH)
        /\ Has(e.flags, FILE_CLASS_TLS) => Has(e.flags, FILE_TYPE_HAVE_CLASS)

C16_Witness ==
    /\ \E e \in ParsedEntries :
          /\ "FILE_TYPE_TLS_SYMLINK" \in e.flags
          /\ e.path # NULL /\ e.target # NULL
          /\ Has(e.flags, FILE_CLASS_ARCH) /\ Has(e.flags, FILE_CLASS_TLS)
    /\ \E e \in ParsedEntries :
          /\ e.flags = { "FILE_TYPE_KERNEL_MODULE_SRC" }
          /\ e.path = NULL /\ e.target = NULL

WordStarts(s) ==
    { i \in DOMAIN s : s[i] \notin Space /\ (i = 1 \/ s[i - 1] \in Space) }

WordEnd(s, i) ==
    CHOOSE j \in i..Len(s) :
        /\ \A k \in i..j : s[k] \notin Space
        /\ j = Len(s) \/ s[j + 1] \in Space

\* The whitespace-separated words of a line, in order.
WordsOf(s) ==
    [ k \in 1..Cardinality(WordStarts(s)) |->
        LET i == CHOOSE x \in WordStarts(s) :
                     Cardinality({ y \in WordStarts(s) : y < x }) = k - 1
        IN  SubSeq(s, i, WordEnd(s, i)) ]

\* A line without the slashes at its end.
WithoutTrailingSlashes(s) ==
    LET keep == { i \in DOMAIN s : s[i] # "/" }
    IN  IF keep = {} THEN << >>
        ELSE SubSeq(s, 1, CHOOSE i \in keep : \A k \in keep : k <= i)

\* The list an array of words holds: its elements before the null pointer
\* that ends it.
ListOf(array) == SubSeq(array, 1, Len(array) - 1)

NothingReleasedTwice ==
    /\ sys.open <= 1 /\ sys.mmap <= 1
    /\ sys.close <= sys.open
    /\ sys.munmap <= sys.mmap
    /\ sys.mmap <= sys.open

IsSuffix(t, s) ==
    /\ Len(t) <= Len(s)
    /\ SubSeq(s, Len(s) - Len(t) + 1, Len(s)) = t

\* s holds no path separator.
NoSeparator(s) == \A i \in DOMAIN s : s[i] # "/"

\* The name of entry e is the last path component of its file.
NameIsBasename(e) ==
    /\ IsSuffix(e.name, e.file)
    /\ NoSeparator(e.name)
    /\ NoSeparator(e.file) => e.name = e.file

\* The entries add_package_entry() appended to the returned Package.
AddedEntries ==
    IF ParseSucceeded
    THEN { pkg.entries[i] : i \in (pkg.num_entries - adds + 1)..pkg.num_entries }
    ELSE {}

PackageHeader == DOMAIN ZeroPackage \ { "entries", "num_entries" }

WrittenOptions == { "dkms", "no_kernel_module" }

PastKernelModuleStage ==
    Called("find_system_util:dkms") \/ Called("ui_warn:no-kernel-module")

\* C23: one run of install_from_cwd never invokes both install_kernel_module
\* and dkms_install_module; when the options on the call disable the kernel
\* module, neither is invoked and the dkms option is false once the
\* kernel-module stage is over, whatever it was on the call.
C23_ModuleInstalledOneWay ==
    InInstall =>
        /\ ~(Called("install_kernel_module") /\ Called("dkms_install_module"))
        /\ op0.no_kernel_module =>
              /\ ~Called("install_kernel_module")
              /\ ~Called("dkms_install_module")
              /\ PastKernelModuleStage => ~op.dkms

C23_Witness ==
    /\ InInstall
    /\ Finished
    /\ ret = "TRUE"
    /\ op0.no_kernel_module
    /\ op0.dkms
    /\ Returned("do_install", TRUE)
    /\ Called("ui_warn:dkms-ignored")

\* The user declined the command list (the call at l.259 returned FALSE).
ApprovalDeclined == Returned("ui_approve_command_list", FALSE)

\* C24: in a run with kernel_module_only false in which the user declines
\* the command list, uninstall_existing_driver has returned success before
\* the approval was asked and the pre-install hook has run, and from the
\* decline on no command is executed, no backup log is initialized, no error
\* message is shown and the failed-install hook is not run; the run returns
\* FALSE as Declined.
C24_DeclineAfterUninstallIsQuiet ==
    (InInstall /\ ~op0.kernel_module_only /\ ApprovalDeclined) =>
        /\ OnlyAfter("ui_approve_command_list", "uninstall_existing_driver", TRUE)
        /\ Called("run_distro_hook:pre-install")
        /\ ran_pre_install_hook
        /\ ~Called("do_install")
        /\ ~Called("init_backup")
        /\ ~Called("dkms_install_module")
        /\ ~ErrorSurfaced
        /\ ~Called("run_distro_hook:failed-install")
        /\ pc \in { "exit_install", "returned" }
        /\ Finished => (ret = "FALSE" /\ outcome = "Declined")

C24_Witness ==
    /\ InInstall
    /\ ~op0.kernel_module_only
    /\ ApprovalDeclined
    /\ Finished
    /\ Returned("uninstall_existing_driver", TRUE)
    /\ Returned("run_distro_hook:pre-install", FALSE)
    /\ Returned("ui_yes_no:continue", TRUE)
    /\ pkg_frees = 1

\* What a run with kernel_module_only set leaves out (l.189-195, l.249-251,
\* l.265-267, l.294-330).
UserSpaceSteps ==
    { "uninstall_existing_driver", "init_backup", "get_prefixes",
      "ui_yes_no:nvidia-xconfig", "run_nvidia_xconfig" }

\* Every call of fn directly follows a call of g that returned TRUE.
DirectlyAfter(fn, g) ==
    \A i \in DOMAIN calls :
        calls[i].fn = fn => (i > 1 /\ calls[i - 1] = Ev(g, TRUE))

\* C25: with kernel_module_only set, uninstall_existing_driver, init_backup,
\* get_prefixes and the X-configuration offer are never invoked, while the
\* command list is still built, approved and executed: do_install directly
\* follows the approval, which directly follows build_command_list, which
\* directly follows set_destinations, and a successful run has executed the
\* command list.
C25_KernelModuleOnlySkipsUserSpace ==
    (InInstall /\ op0.kernel_module_only) =>
        /\ \A fn \in UserSpaceSteps : ~Called(fn)
        /\ DirectlyAfter("do_install", "ui_approve_command_list")
        /\ DirectlyAfter("ui_approve_command_list", "build_command_list")
        /\ DirectlyAfter("build_command_list", "set_destinations")
        /\ ret = "TRUE" => /\ Returned("do_install", TRUE)
                            /\ Called("remove_non_kernel_module_files_from_package")

C25_Witness ==
    /\ InInstall
    /\ op0.kernel_module_only
    /\ ~op0.no_nvidia_xconfig_question
    /\ Finished
    /\ ret = "TRUE"
    /\ Returned("build_command_list", TRUE)
    /\ Returned("ui_approve_command_list", TRUE)
    /\ Returned("do_install", TRUE)
    /\ Called("ui_message:complete")

-----------------------------------------------------------------------------
(* Two runs of install_from_cwd() on one configuration.  The first run is  *)
(* kept in the history, closed by its outcome; the second starts from the  *)
(* options and the platform the first one started from.                    *)

\* The collaborators whose result install_from_cwd does not act on.
Advisories ==
    { "check_for_nvidia_graphics_devices", "run_distro_hook:post-install",
      "check_installed_files_from_package", "ui_yes_no:nvidia-xconfig",
      "run_nvidia_xconfig" }

ReturnMark == "install_from_cwd:return"

Restarted == Called(ReturnMark)

\* The configurations on which pairs of runs are compared: every option that
\* selects between calls is free; logging, which selects between two wordings
\* of the failure message (l.343-354), is on.
PairedConfiguration == op0.logging

\* The first run of a pair is the one in which every advisory step reported
\* success; any two runs given the same results are each paired with it.
install_from_cwd_again ==
    /\ InInstall
    /\ PairedConfiguration
    /\ pc = "returned"
    /\ ~Restarted
    /\ \A i \in DOMAIN calls : calls[i].fn \in Advisories => calls[i].ret
    /\ calls' = Log(ReturnMark, outcome)
    /\ pc' = "parse_manifest"
    /\ op' = op0
    /\ p' = "NULL"
    /\ ran_pre_install_hook' = FALSE
    /\ pkg_allocs' = 0
    /\ pkg_frees' = 0
    /\ outcome' = "Running"
    /\ ret' = "none"
    /\ UNCHANGED << pvars, entry, op0, NV_X86_64 >>

MarkAt == CHOOSE i \in DOMAIN calls : calls[i].fn = ReturnMark

FirstRun == SubSeq(calls, 1, MarkAt - 1)

SecondRun == SubSeq(calls, MarkAt + 1, Len(calls))

FirstOutcome == calls[MarkAt].ret

\* The calls of a run whose result the run acts on, and the advisory ones.
Inputs(s) ==
    LET Acted(e) == e.fn \notin Advisories
    IN  SelectSeq(s, Acted)

AdvisoryResults(s) ==
    LET Ignored(e) == e.fn \in Advisories
    IN  SelectSeq(s, Ignored)

GatesOf(s) ==
    LET IsGate(e) == e.fn \in HardGates \cup SoftGates
    IN  SelectSeq(s, IsGate)

\* Two runs were given the same results apart from the advisory ones: as long
\* as they have made the same calls with the same results, the same next call
\* has the same result.
SameAnswers(a, b) ==
    \A k \in 1..Len(a) :
        (k <= Len(b) /\ SubSeq(a, 1, k - 1) = SubSeq(b, 1, k - 1) /\ a[k].fn = b[k].fn)
            => a[k].ret = b[k].ret

\* Wherever the first run made the same call at the same place, the call of
\* the second run has the result it had there.
SameResults(a, b) ==
    \A k \in 1..Len(b) :
        (k <= Len(a) /\ b[k].fn = a[k].fn) => b[k].ret = a[k].ret

\* The second run is followed as long as it is given the results the first
\* run was given.  A run given another result is a run of another pair.
Comparable ==
    Restarted =>
        \A a \in { Inputs(FirstRun) }, b \in { Inputs(SecondRun) } : SameResults(a, b)

NextPair ==
    \/ Next /\ Comparable'
    \/ install_from_cwd_again

SpecPair == Init /\ [][NextPair]_vars

\* C26: two runs of install_from_cwd that differ only in the results of
\* advisory steps (graphics-device detection, post-install hook,
\* installed-files verification, X-configuration prompt and tool) return the
\* same value and invoke the same hard and soft gates in the same order.
C26_AdvisoryResultsDoNotSteer ==
    (Finished /\ Restarted /\ SameAnswers(Inputs(FirstRun), Inputs(SecondRun))) =>
        /\ outcome = FirstOutcome
        /\ GatesOf(SecondRun) = GatesOf(FirstRun)
        /\ Inputs(SecondRun) = Inputs(FirstRun)

C26_Witness ==
    /\ Restarted
    /\ Finished
    /\ SameAnswers(Inputs(FirstRun), Inputs(SecondRun))
    /\ outcome = "Success"
    /\ AdvisoryResults(FirstRun) =
          << Ev("check_for_nvidia_graphics_devices", TRUE),
             Ev("run_distro_hook:post-install", TRUE),
             Ev("check_installed_files_from_package", TRUE),
             Ev("ui_yes_no:nvidia-xconfig", TRUE),
             Ev("run_nvidia_xconfig", TRUE) >>
    /\ AdvisoryResults(SecondRun) =
          << Ev("check_for_nvidia_graphics_devices", FALSE),
             Ev("run_distro_hook:post-install", FALSE),
             Ev("check_installed_files_from_package", FALSE),
             Ev("ui_yes_no:nvidia-xconfig", FALSE) >>

-----------------------------------------------------------------------------
(* Termination.  install_from_cwd() is straight-line code with forward      *)
(* jumps only; when every collaborator returns, the statement the run is   *)
(* at is eventually executed.                                              *)

SpecLive == Spec /\ WF_vars(Next)

\* The calls a run makes at most once.
OncePerRun ==
    HardGates \cup SoftGates \cup Hooks \cup { "install_kernel_module" }

Times(fn) == Cardinality({ i \in DOMAIN calls : calls[i].fn = fn })

Outcomes == { "Success", "Failed", "Declined" }

\* The run is open until it returns, and returns with one outcome and the
\* value that goes with it.
OneOutcome ==
    IF Finished
    THEN /\ outcome \in Outcomes
         /\ (outcome = "Success") <=> (ret = "TRUE")
         /\ (outcome # "Success") <=> (ret = "FALSE")
    ELSE /\ outcome \in { "Running", "Failed" }
         /\ ret = "none"

\* C27: when every collaborator call returns, every run of install_from_cwd
\* returns, with exactly one of the outcomes Success (TRUE is returned),
\* Failed and Declined (FALSE is returned); each gated stage, each hook,
\* install_kernel_module, uninstall_existing_driver, init_backup, do_install
\* and dkms_install_module is invoked at most once.
C27_RunsEndOnceInOneOutcome ==
    /\ <>Finished
    /\ []OneOutcome
    /\ [](\A fn \in OncePerRun : Times(fn) <= 1)

C27_Witness ==
    /\ InInstall
    /\ Finished
    /\ outcome = "Failed"
    /\ Returned("dkms_install_module", FALSE)
    /\ Returned("run_distro_hook:failed-install", FALSE)
    /\ \A fn \in { "run_distro_hook:pre-install", "uninstall_existing_driver",
                     "init_backup", "do_install", "dkms_install_module",
                     "run_distro_hook:failed-install" } : Times(fn) = 1

====
